---- MODULE Spec2Model ----
(***************************************************************************)
(* Model of the ELF metadata reader (src/src/elf): the endian primitive    *)
(* decoder, Word, the enumerated field decoders, Header::parse_bytes,      *)
(* ProgramHeader::parse_bytes, UnnamedSectionHeader::parse_bytes/to_named  *)
(* and the orchestrator Metadata::parse_file.                              *)
(*                                                                         *)
(* Number representation.  A u8 and a u16 are naturals.  A u32 / u64 is    *)
(* the sequence of its 4 / 8 base-256 digits, most significant digit       *)
(* first, because a 32-bit or 64-bit unsigned value does not fit the       *)
(* integers of the model checker.  <<0,0,1,2>> is 0x00000102.              *)
(*                                                                         *)
(* Results.  A Rust Result is Ok(v) or Err(name, arg); a call that aborts  *)
(* (failed assert!, slice index out of range, arithmetic overflow in a     *)
(* build with overflow checks) is Panic.                                   *)
(***************************************************************************)
EXTENDS Naturals, Integers, Sequences, FiniteSets, TLC

VARIABLES
    hbytes,     \* the slice handed to Header::parse_bytes
    hres,       \* its result, or NoResult before the call
    pin,        \* the input of ProgramHeader::parse_bytes: [bytes, ww, en]
    pres,       \* its result, or NoResult before the call
    file,       \* the bytes of the file Metadata::parse_file reads
    build,      \* "debug" (overflow checks) or "release" (wrapping arithmetic)
    pc,         \* the position of parse_file
    pos,        \* the file cursor
    ops,        \* the operations performed on the byte source, in order
    header,     \* the decoded Header, once there is one
    pheaders,   \* the decoded program headers
    unnamed,    \* the decoded UnnamedSectionHeaders
    result,     \* the value parse_file returns, or NoResult while it runs
    call,       \* a call of one of the other decoders: [fn, ...arguments]
    ret         \* its result, or NoResult before the call

vars == <<hbytes, hres, pin, pres, file, build, pc, pos, ops, header,
          pheaders, unnamed, result, call, ret>>

----------------------------------------------------------------------------
(* Results *)

Ok(v) == [tag |-> "Ok", val |-> v]

Err(name, arg) == [tag |-> "Err", name |-> name, arg |-> arg]

Panic == [tag |-> "Panic"]

NoResult == [tag |-> "None"]

IsOk(r) == r.tag = "Ok"

IsErr(r, name) == r.tag = "Err" /\ r.name = name

----------------------------------------------------------------------------
(* Slices *)

\* &bytes[from..] of a slice; the caller has established from <= Len(bytes)
SliceFrom(bytes, from) == SubSeq(bytes, from + 1, Len(bytes))

\* &bytes[from..to]
Slice(bytes, from, to) == SubSeq(bytes, from + 1, to)

\* the outcome r of a read of &bytes[from..]: the slice expression panics
\* when from is beyond the end of bytes
AtSliceFrom(bytes, from, r) == IF from > Len(bytes) THEN Panic ELSE r

\* the outcome r of a read of &bytes[..to], likewise
AtSlice(bytes, to, r) == IF to > Len(bytes) THEN Panic ELSE r

Reverse(s) == [i \in 1..Len(s) |-> s[Len(s) + 1 - i]]

Zeros(n) == [i \in 1..n |-> 0]

----------------------------------------------------------------------------
(* bytes.rs: the endian primitive decoder *)

\* the decoder taking the last n bytes of the slice
from_bytes_tail(bytes, n, endianness) ==
    IF Len(bytes) < n THEN Panic
    ELSE IF endianness = "Little"
         THEN Ok(Reverse(SubSeq(bytes, Len(bytes) - n + 1, Len(bytes))))
    ELSE Ok(SubSeq(bytes, Len(bytes) - n + 1, Len(bytes)))

\* the decoder reading every slice most significant byte first
from_bytes_big(bytes, n, endianness) ==
    IF Len(bytes) < n THEN Panic ELSE Ok(SubSeq(bytes, 1, n))

\* T::from_bytes for a T of n bytes: assert!(bytes.len() >= n), then
\* from_le_bytes / from_be_bytes of the first n bytes, as base-256 digits,
\* most significant first
from_bytes(bytes, n, endianness) ==
    IF Len(bytes) < n THEN Panic
    ELSE IF endianness = "Little" THEN Ok(Reverse(SubSeq(bytes, 1, n)))
    ELSE Ok(SubSeq(bytes, 1, n))

u16_from_bytes(bytes, endianness) ==
    LET r == from_bytes(bytes, 2, endianness)
    IN  IF r.tag = "Panic" THEN Panic ELSE Ok(r.val[1] * 256 + r.val[2])

u32_from_bytes(bytes, endianness) == from_bytes(bytes, 4, endianness)

u64_from_bytes(bytes, endianness) == from_bytes(bytes, 8, endianness)

----------------------------------------------------------------------------
(* common.rs: Word and the enumerated decoders the header needs *)

Word32(d) == [w |-> 32, d |-> d]

Word64(d) == [w |-> 64, d |-> d]

\* impl From<Word> for u64
Word_to_u64(word) == IF word.w = 32 THEN Zeros(4) \o word.d ELSE word.d

WordWidth_size(word_width) == IF word_width = "Width32" THEN 4 ELSE 8

\* the decoder checking the slice against 4 bytes for both widths
Word_parse_bytes_checks_four(bytes, word_width, endianness) ==
    IF Len(bytes) < 4 THEN Err("InsufficientPartLength", Len(bytes))
    ELSE IF word_width = "Width32"
         THEN LET r == u32_from_bytes(bytes, endianness)
              IN  IF r.tag = "Panic" THEN Panic ELSE Ok(Word32(r.val))
    ELSE LET r == u64_from_bytes(bytes, endianness)
         IN  IF r.tag = "Panic" THEN Panic ELSE Ok(Word64(r.val))

Word_parse_bytes(bytes, word_width, endianness) ==
    IF word_width = "Width32"
    THEN IF Len(bytes) < 4 THEN Err("InsufficientPartLength", Len(bytes))
         ELSE LET r == u32_from_bytes(bytes, endianness)
              IN  IF r.tag = "Panic" THEN Panic ELSE Ok(Word32(r.val))
    ELSE IF Len(bytes) < 8 THEN Err("InsufficientPartLength", Len(bytes))
         ELSE LET r == u64_from_bytes(bytes, endianness)
              IN  IF r.tag = "Panic" THEN Panic ELSE Ok(Word64(r.val))

\* the decoder with Specific starting above 0xFF00
FileType_parse_u16_above(i) ==
    CASE i = 0 -> Ok(<<"None">>)
      [] i = 1 -> Ok(<<"Relocatable">>)
      [] i = 2 -> Ok(<<"Executable">>)
      [] i = 3 -> Ok(<<"Shared">>)
      [] i = 4 -> Ok(<<"Core">>)
      [] i > 4 /\ i > 65280 -> Ok(<<"Specific", i>>)
      [] OTHER -> Err("InvalidFileType", i)

FileType_parse_u16(i) ==
    CASE i = 0 -> Ok(<<"None">>)
      [] i = 1 -> Ok(<<"Relocatable">>)
      [] i = 2 -> Ok(<<"Executable">>)
      [] i = 3 -> Ok(<<"Shared">>)
      [] i = 4 -> Ok(<<"Core">>)
      [] i > 4 /\ i >= 65280 -> Ok(<<"Specific", i>>)
      [] OTHER -> Err("InvalidFileType", i)

FileType_parse_bytes(bytes, endianness) ==
    IF Len(bytes) < 2 THEN Err("InsufficientPartLength", Len(bytes))
    ELSE LET r == u16_from_bytes(bytes, endianness)
         IN  IF r.tag = "Panic" THEN Panic ELSE FileType_parse_u16(r.val)

WordWidth_parse_byte(b) ==
    CASE b = 1 -> Ok("Width32")
      [] b = 2 -> Ok("Width64")
      [] OTHER -> Err("InvalidWordWidth", b)

\* the decoder taking byte 0 as Little
Endianness_parse_byte_lenient(b) ==
    CASE b = 0 -> Ok("Little")
      [] b = 1 -> Ok("Little")
      [] b = 2 -> Ok("Big")
      [] OTHER -> Err("InvalidEndianness", b)

Endianness_parse_byte(b) ==
    CASE b = 1 -> Ok("Little")
      [] b = 2 -> Ok("Big")
      [] OTHER -> Err("InvalidEndianness", b)

Abi_from_byte(b) ==
    CASE b = 0 -> "SysV"
      [] b = 1 -> "HpUx"
      [] b = 2 -> "NetBSD"
      [] b = 3 -> "Linux"
      [] b = 4 -> "GnuHurd"
      [] b = 6 -> "Solaris"
      [] b = 7 -> "Aix"
      [] b = 8 -> "Irix"
      [] b = 9 -> "FreeBSD"
      [] b = 10 -> "Tru64"
      [] b = 11 -> "NovellModesto"
      [] b = 12 -> "OpenBSD"
      [] b = 13 -> "OpenVMS"
      [] b = 14 -> "NonStopKernel"
      [] b = 15 -> "Aros"
      [] b = 16 -> "FenixOS"
      [] b = 17 -> "CloudABI"
      [] b = 18 -> "OpenVOS"
      [] OTHER -> "Unknown"

Arch_from_u16(i) ==
    CASE i = 0 -> "Unspecified"
      [] i = 1 -> "WE32100"
      [] i = 2 -> "Sparc"
      [] i = 3 -> "X86"
      [] i = 4 -> "M68k"
      [] i = 5 -> "M88k"
      [] i = 6 -> "IntelMCU"
      [] i = 7 -> "Intel80860"
      [] i = 8 -> "MIPS"
      [] i = 9 -> "System370"
      [] i = 10 -> "RS3000"
      [] i = 14 -> "PARISC"
      [] i = 19 -> "Intel80960"
      [] i = 20 -> "PowerPC"
      [] i = 21 -> "PowerPC64"
      [] i = 22 -> "S390"
      [] i = 40 -> "ARM"
      [] i = 42 -> "SuperH"
      [] i = 50 -> "IA64"
      [] i = 62 -> "X86_64"
      [] i = 140 -> "TMS320C6000"
      [] i = 183 -> "AArch64"
      [] i = 243 -> "RISCV"
      [] i = 247 -> "BPF"
      [] i = 257 -> "WDC65C816"
      [] OTHER -> "Unknown"

\* the decoder rejecting a code outside the known list
Arch_parse_bytes_strict(bytes, endianness) ==
    IF Len(bytes) < 2 THEN Err("InsufficientPartLength", Len(bytes))
    ELSE LET r == u16_from_bytes(bytes, endianness)
         IN  IF r.tag = "Panic" THEN Panic
             ELSE IF Arch_from_u16(r.val) = "Unknown" THEN Err("InvalidArch", r.val)
             ELSE Ok(Arch_from_u16(r.val))

Arch_parse_bytes(bytes, endianness) ==
    IF Len(bytes) < 2 THEN Err("InsufficientPartLength", Len(bytes))
    ELSE LET r == u16_from_bytes(bytes, endianness)
         IN  IF r.tag = "Panic" THEN Panic ELSE Ok(Arch_from_u16(r.val))

----------------------------------------------------------------------------
(* header.rs: Header::parse_bytes *)

\* u32::from_le_bytes([0x7F, 0x45, 0x4C, 0x46]), most significant digit first
MAGIC == <<70, 76, 69, 127>>

\* check_length reporting the required instead of the actual length
Header_check_length_reports_minimum(minimum, actual) ==
    IF actual < minimum THEN Err("InsuffcientHeaderLength", minimum) ELSE Ok(<<>>)

Header_check_length(minimum, actual) ==
    IF actual < minimum THEN Err("InsuffcientHeaderLength", actual) ELSE Ok(<<>>)

\* check_magic reading the magic in big-endian order
Header_check_magic_big(bytes) ==
    LET value == u32_from_bytes(bytes, "Big")
    IN  IF value.tag = "Panic" THEN Panic
        ELSE IF value.val # MAGIC THEN Err("NoELF", value.val)
        ELSE Ok(<<>>)

Header_check_magic(bytes) ==
    LET value == u32_from_bytes(bytes, "Little")
    IN  IF value.tag = "Panic" THEN Panic
        ELSE IF value.val # MAGIC THEN Err("NoELF", value.val)
        ELSE Ok(<<>>)

\* a required length that ignores the word width
Header_size_always_52(word_width) == 52

\* the required length of a header of the given word width
Header_size(word_width) == IF word_width = "Width32" THEN 52 ELSE 64

\* the offset tables with the last offset of each repeating the one before
Header_offsets_last_repeated(word_width) ==
    IF word_width = "Width32"
    THEN <<24, 28, 32, 36, 40, 42, 44, 46, 48, 48>>
    ELSE <<24, 32, 40, 48, 52, 54, 56, 58, 60, 60>>

\* [entry_point, pheader_start, sheader_start, flags, header_size,
\*  pheader_entry_size, pheader_entries, sheader_entry_size, sheader_entries,
\*  section_names_index]
Header_offsets(word_width) ==
    IF word_width = "Width32"
    THEN <<24, 28, 32, 36, 40, 42, 44, 46, 48, 50>>
    ELSE <<24, 32, 40, 48, 52, 54, 56, 58, 60, 62>>

\* the part of parse_bytes after the endianness is known (lines 145-195)
Header_parse_fields(bytes, word_width, endianness, required_bytes) ==
    LET header_version == bytes[7]
        os_abi == Abi_from_byte(bytes[8])
        abi_version == bytes[9]
        file_type ==
            AtSlice(bytes, 18, FileType_parse_bytes(Slice(bytes, 16, 18), endianness))
        arch ==
            AtSlice(bytes, 20, Arch_parse_bytes(Slice(bytes, 18, 20), endianness))
        version ==
            AtSlice(bytes, 24, u32_from_bytes(Slice(bytes, 20, 24), endianness))
        offsets == Header_offsets(word_width)
        entry_point ==
            AtSliceFrom(bytes, offsets[1],
                        Word_parse_bytes(SliceFrom(bytes, offsets[1]), word_width, endianness))
        program_header_start ==
            AtSliceFrom(bytes, offsets[2],
                        Word_parse_bytes(SliceFrom(bytes, offsets[2]), word_width, endianness))
        section_header_start ==
            AtSliceFrom(bytes, offsets[3],
                        Word_parse_bytes(SliceFrom(bytes, offsets[3]), word_width, endianness))
        flags ==
            AtSliceFrom(bytes, offsets[4],
                        u32_from_bytes(SliceFrom(bytes, offsets[4]), endianness))
        header_size ==
            AtSliceFrom(bytes, offsets[5],
                        u16_from_bytes(SliceFrom(bytes, offsets[5]), endianness))
        pheader_entry_size ==
            AtSliceFrom(bytes, offsets[6],
                        u16_from_bytes(SliceFrom(bytes, offsets[6]), endianness))
        pheader_entries ==
            AtSliceFrom(bytes, offsets[7],
                        u16_from_bytes(SliceFrom(bytes, offsets[7]), endianness))
        sheader_entry_size ==
            AtSliceFrom(bytes, offsets[8],
                        u16_from_bytes(SliceFrom(bytes, offsets[8]), endianness))
        sheader_entries ==
            AtSliceFrom(bytes, offsets[9],
                        u16_from_bytes(SliceFrom(bytes, offsets[9]), endianness))
        section_names_index ==
            AtSliceFrom(bytes, offsets[10],
                        u16_from_bytes(SliceFrom(bytes, offsets[10]), endianness))
    IN  IF ~IsOk(file_type) THEN file_type
        ELSE IF ~IsOk(arch) THEN arch
        ELSE IF ~IsOk(version) THEN version
        ELSE IF ~IsOk(entry_point) THEN entry_point
        ELSE IF ~IsOk(program_header_start) THEN program_header_start
        ELSE IF ~IsOk(section_header_start) THEN section_header_start
        ELSE IF ~IsOk(flags) THEN flags
        ELSE IF ~IsOk(header_size) THEN header_size
        ELSE IF required_bytes # header_size.val
             THEN Err("InsuffcientHeaderLength", header_size.val)
        ELSE IF \E r \in {pheader_entry_size, pheader_entries, sheader_entry_size,
                          sheader_entries, section_names_index} : ~IsOk(r)
             THEN Panic
        ELSE Ok([word_width |-> word_width,
                 endianness |-> endianness,
                 header_version |-> header_version,
                 os_abi |-> os_abi,
                 abi_version |-> abi_version,
                 file_type |-> file_type.val,
                 arch |-> arch.val,
                 version |-> version.val,
                 entry_point |-> entry_point.val,
                 program_header_start |-> program_header_start.val,
                 section_header_start |-> section_header_start.val,
                 flags |-> flags.val,
                 pheader_entry_size |-> pheader_entry_size.val,
                 pheader_entries |-> pheader_entries.val,
                 sheader_entry_size |-> sheader_entry_size.val,
                 sheader_entries |-> sheader_entries.val,
                 section_names_index |-> section_names_index.val])

\* parse_bytes decoding the byte order before the second length check
Header_parse_bytes_endianness_first(bytes) ==
    LET len1 == Header_check_length(52, Len(bytes))
    IN  IF ~IsOk(len1) THEN len1
        ELSE LET magic == Header_check_magic(bytes)
        IN  IF ~IsOk(magic) THEN magic
        ELSE LET word_width == WordWidth_parse_byte(bytes[5])
        IN  IF ~IsOk(word_width) THEN word_width
        ELSE LET endianness == Endianness_parse_byte(bytes[6])
        IN  IF ~IsOk(endianness) THEN endianness
        ELSE LET required_bytes == Header_size(word_width.val)
                 len2 == Header_check_length(required_bytes, Len(bytes))
        IN  IF ~IsOk(len2) THEN len2
        ELSE Header_parse_fields(bytes, word_width.val, endianness.val,
                                 required_bytes)

Header_parse_bytes(bytes) ==
    LET len1 == Header_check_length(52, Len(bytes))
    IN  IF ~IsOk(len1) THEN len1
        ELSE LET magic == Header_check_magic(bytes)
        IN  IF ~IsOk(magic) THEN magic
        ELSE LET word_width == WordWidth_parse_byte(bytes[5])
        IN  IF ~IsOk(word_width) THEN word_width
        ELSE LET required_bytes == Header_size(word_width.val)
                 len2 == Header_check_length(required_bytes, Len(bytes))
        IN  IF ~IsOk(len2) THEN len2
        ELSE LET endianness == Endianness_parse_byte(bytes[6])
        IN  IF ~IsOk(endianness) THEN endianness
        ELSE Header_parse_fields(bytes, word_width.val, endianness.val,
                                 required_bytes)

----------------------------------------------------------------------------
(* Arithmetic on base-256 digit sequences (most significant digit first) *)

\* a <= b for two digit sequences of the same length
DLeq(a, b) ==
    \/ a = b
    \/ \E i \in 1..Len(a) :
          /\ a[i] < b[i]
          /\ \A j \in 1..(i - 1) : a[j] = b[j]

\* the test that leaves out 1 = 2^0
is_power_of_two_above_one(d) ==
    /\ Cardinality({i \in 1..Len(d) : d[i] # 0}) = 1
    /\ \A i \in 1..Len(d) : d[i] # 0 => d[i] \in {1, 2, 4, 8, 16, 32, 64, 128}
    /\ d # <<0, 0, 0, 0, 0, 0, 0, 1>>

\* u64::is_power_of_two: exactly one bit is set
is_power_of_two(d) ==
    /\ Cardinality({i \in 1..Len(d) : d[i] # 0}) = 1
    /\ \A i \in 1..Len(d) : d[i] # 0 => d[i] \in {1, 2, 4, 8, 16, 32, 64, 128}

\* a % m where m is a power of two (the only moduli the code computes with)
RemPow2(a, m) ==
    LET p == CHOOSE i \in 1..Len(m) : m[i] # 0
    IN  [i \in 1..Len(a) |->
            IF i < p THEN 0 ELSE IF i = p THEN a[i] % m[p] ELSE a[i]]

\* the u64 1
One64 == <<0, 0, 0, 0, 0, 0, 0, 1>>

----------------------------------------------------------------------------
(* program_header.rs *)

\* the decoder whose OSSpecific range runs up to 0x7FFFFFFF
ProgramHeaderSegmentType_parse_u32_wide(u) ==
    CASE u = <<0, 0, 0, 0>> -> Ok(<<"Null">>)
      [] u = <<0, 0, 0, 1>> -> Ok(<<"Load">>)
      [] u = <<0, 0, 0, 2>> -> Ok(<<"Dynamic">>)
      [] u = <<0, 0, 0, 3>> -> Ok(<<"Interp">>)
      [] u = <<0, 0, 0, 4>> -> Ok(<<"Note">>)
      [] u = <<0, 0, 0, 5>> -> Ok(<<"SharedLib">>)
      [] u = <<0, 0, 0, 6>> -> Ok(<<"HeaderSegment">>)
      [] u = <<0, 0, 0, 7>> -> Ok(<<"ThreadLocalStorage">>)
      [] u[1] >= 96 /\ u[1] <= 127 -> Ok(<<"OSSpecific", u>>)
      [] OTHER -> Err("InvalidProgHeaderType", u)

ProgramHeaderSegmentType_parse_u32(u) ==
    CASE u = <<0, 0, 0, 0>> -> Ok(<<"Null">>)
      [] u = <<0, 0, 0, 1>> -> Ok(<<"Load">>)
      [] u = <<0, 0, 0, 2>> -> Ok(<<"Dynamic">>)
      [] u = <<0, 0, 0, 3>> -> Ok(<<"Interp">>)
      [] u = <<0, 0, 0, 4>> -> Ok(<<"Note">>)
      [] u = <<0, 0, 0, 5>> -> Ok(<<"SharedLib">>)
      [] u = <<0, 0, 0, 6>> -> Ok(<<"HeaderSegment">>)
      [] u = <<0, 0, 0, 7>> -> Ok(<<"ThreadLocalStorage">>)
      [] DLeq(<<96, 0, 0, 0>>, u) /\ DLeq(u, <<111, 255, 255, 255>>) ->
            Ok(<<"OSSpecific", u>>)
      [] DLeq(<<112, 0, 0, 0>>, u) /\ DLeq(u, <<127, 255, 255, 255>>) ->
            Ok(<<"ProcessorSpecific", u>>)
      [] OTHER -> Err("InvalidProgHeaderType", u)

ProgramHeaderSegmentType_parse_bytes(bytes, endianness) ==
    IF Len(bytes) < 4 THEN Err("InsufficientPartLength", Len(bytes))
    ELSE LET r == u32_from_bytes(bytes, endianness)
         IN  IF r.tag = "Panic" THEN Panic
             ELSE ProgramHeaderSegmentType_parse_u32(r.val)

ProgramHeader_check_length(expected, actual) ==
    IF actual < expected THEN Err("InvalidProgHeaderLength", actual) ELSE Ok(<<>>)

\* validate_vaddr comparing the reduced address with the unreduced offset
ProgramHeader_validate_vaddr_offset_unreduced(offset, addr, align) ==
    LET align64 == Word_to_u64(align)
    IN  IF DLeq(align64, One64) THEN Ok(<<>>)
        ELSE IF ~is_power_of_two(align64) THEN Err("InvalidAlignment", align64)
        ELSE IF RemPow2(Word_to_u64(addr), align64) = Word_to_u64(offset)
             THEN Ok(<<>>)
             ELSE Err("InvalidVirtualAddress", addr)

ProgramHeader_validate_vaddr(offset, addr, align) ==
    LET align64 == Word_to_u64(align)
    IN  IF DLeq(align64, One64) THEN Ok(<<>>)
        ELSE IF ~is_power_of_two(align64) THEN Err("InvalidAlignment", align64)
        ELSE LET offset64 == Word_to_u64(offset)
                 normalized_addr == Word_to_u64(addr)
             IN  IF RemPow2(normalized_addr, align64) = RemPow2(offset64, align64)
                 THEN Ok(<<>>)
                 ELSE Err("InvalidVirtualAddress", addr)

\* the offsets with flags after memsize in the 64-bit layout as in the 32-bit one
ProgramHeader_offsets_flags_late(word_width) ==
    IF word_width = "Width32"
    THEN <<4, 8, 12, 16, 20, 24, 28>>
    ELSE <<4, 12, 20, 28, 36, 44, 48>>

\* [offset, vaddress, paddress, filesize, memsize, flags, alignment]
ProgramHeader_offsets(word_width) ==
    IF word_width = "Width32"
    THEN <<4, 8, 12, 16, 20, 24, 28>>
    ELSE <<8, 16, 24, 32, 40, 4, 48>>

\* the minimum entry length of the given word width
ProgramHeader_size(word_width) == IF word_width = "Width32" THEN 32 ELSE 56

\* the part of parse_bytes after the second length check (lines 99-116)
ProgramHeader_parse_fields(bytes, word_width, endianness, typ) ==
    LET offsets == ProgramHeader_offsets(word_width)
        offset ==
            AtSliceFrom(bytes, offsets[1],
                        Word_parse_bytes(SliceFrom(bytes, offsets[1]), word_width, endianness))
        vaddress ==
            AtSliceFrom(bytes, offsets[2],
                        Word_parse_bytes(SliceFrom(bytes, offsets[2]), word_width, endianness))
        paddress ==
            AtSliceFrom(bytes, offsets[3],
                        Word_parse_bytes(SliceFrom(bytes, offsets[3]), word_width, endianness))
        filesize ==
            AtSliceFrom(bytes, offsets[4],
                        Word_parse_bytes(SliceFrom(bytes, offsets[4]), word_width, endianness))
        memsize ==
            AtSliceFrom(bytes, offsets[5],
                        Word_parse_bytes(SliceFrom(bytes, offsets[5]), word_width, endianness))
        flags ==
            AtSliceFrom(bytes, offsets[6],
                        u32_from_bytes(SliceFrom(bytes, offsets[6]), endianness))
        alignment ==
            AtSliceFrom(bytes, offsets[7],
                        Word_parse_bytes(SliceFrom(bytes, offsets[7]), word_width, endianness))
    IN  IF ~IsOk(offset) THEN offset
        ELSE IF ~IsOk(vaddress) THEN vaddress
        ELSE IF ~IsOk(paddress) THEN paddress
        ELSE IF ~IsOk(filesize) THEN filesize
        ELSE IF ~IsOk(memsize) THEN memsize
        ELSE IF ~IsOk(flags) THEN flags
        ELSE IF ~IsOk(alignment) THEN alignment
        ELSE LET valid == ProgramHeader_validate_vaddr(offset.val, vaddress.val,
                                                       alignment.val)
        IN  IF ~IsOk(valid) THEN valid
        ELSE Ok([typ |-> typ,
                 flags |-> flags.val,
                 offset |-> offset.val,
                 vaddress |-> vaddress.val,
                 paddress |-> paddress.val,
                 filesize |-> filesize.val,
                 memsize |-> memsize.val,
                 alignment |-> alignment.val])

ProgramHeader_parse_bytes(bytes, word_width, endianness) ==
    LET len1 == ProgramHeader_check_length(32, Len(bytes))
    IN  IF ~IsOk(len1) THEN len1
        ELSE LET typ == ProgramHeaderSegmentType_parse_bytes(bytes, endianness)
        IN  IF ~IsOk(typ) THEN typ
        ELSE LET len2 == ProgramHeader_check_length(ProgramHeader_size(word_width),
                                                    Len(bytes))
        IN  IF ~IsOk(len2) THEN len2
        ELSE ProgramHeader_parse_fields(bytes, word_width, endianness, typ.val)

----------------------------------------------------------------------------
(* section_header.rs *)

\* the decoder whose OsSpecific range starts above 0x60000000
SectionHeaderType_parse_u32_above(raw) ==
    CASE raw = <<0, 0, 0, 0>> -> Ok(<<"Null">>)
      [] raw = <<0, 0, 0, 1>> -> Ok(<<"ProgramBits">>)
      [] raw = <<0, 0, 0, 2>> -> Ok(<<"SymbolTable">>)
      [] raw = <<0, 0, 0, 3>> -> Ok(<<"StringTable">>)
      [] raw = <<0, 0, 0, 4>> -> Ok(<<"RelocationWithAddends">>)
      [] raw = <<0, 0, 0, 5>> -> Ok(<<"Hash">>)
      [] raw = <<0, 0, 0, 6>> -> Ok(<<"Dynamic">>)
      [] raw = <<0, 0, 0, 7>> -> Ok(<<"Note">>)
      [] raw = <<0, 0, 0, 8>> -> Ok(<<"NoData">>)
      [] raw = <<0, 0, 0, 9>> -> Ok(<<"Relocation">>)
      [] raw = <<0, 0, 0, 10>> -> Ok(<<"SharedLib">>)
      [] raw = <<0, 0, 0, 11>> -> Ok(<<"DynamicSymbolTable">>)
      [] raw = <<0, 0, 0, 14>> -> Ok(<<"ConstructorArray">>)
      [] raw = <<0, 0, 0, 15>> -> Ok(<<"DestructorArray">>)
      [] raw = <<0, 0, 0, 16>> -> Ok(<<"PreConstructorArray">>)
      [] raw = <<0, 0, 0, 17>> -> Ok(<<"Group">>)
      [] raw = <<0, 0, 0, 18>> -> Ok(<<"SectionIndices">>)
      [] raw = <<0, 0, 0, 19>> -> Ok(<<"Num">>)
      [] DLeq(<<96, 0, 0, 1>>, raw) -> Ok(<<"OsSpecific", raw>>)
      [] OTHER -> Err("InvalidSectionHeaderType", raw)

SectionHeaderType_parse_u32(raw) ==
    CASE raw = <<0, 0, 0, 0>> -> Ok(<<"Null">>)
      [] raw = <<0, 0, 0, 1>> -> Ok(<<"ProgramBits">>)
      [] raw = <<0, 0, 0, 2>> -> Ok(<<"SymbolTable">>)
      [] raw = <<0, 0, 0, 3>> -> Ok(<<"StringTable">>)
      [] raw = <<0, 0, 0, 4>> -> Ok(<<"RelocationWithAddends">>)
      [] raw = <<0, 0, 0, 5>> -> Ok(<<"Hash">>)
      [] raw = <<0, 0, 0, 6>> -> Ok(<<"Dynamic">>)
      [] raw = <<0, 0, 0, 7>> -> Ok(<<"Note">>)
      [] raw = <<0, 0, 0, 8>> -> Ok(<<"NoData">>)
      [] raw = <<0, 0, 0, 9>> -> Ok(<<"Relocation">>)
      [] raw = <<0, 0, 0, 10>> -> Ok(<<"SharedLib">>)
      [] raw = <<0, 0, 0, 11>> -> Ok(<<"DynamicSymbolTable">>)
      [] raw = <<0, 0, 0, 14>> -> Ok(<<"ConstructorArray">>)
      [] raw = <<0, 0, 0, 15>> -> Ok(<<"DestructorArray">>)
      [] raw = <<0, 0, 0, 16>> -> Ok(<<"PreConstructorArray">>)
      [] raw = <<0, 0, 0, 17>> -> Ok(<<"Group">>)
      [] raw = <<0, 0, 0, 18>> -> Ok(<<"SectionIndices">>)
      [] raw = <<0, 0, 0, 19>> -> Ok(<<"Num">>)
      [] DLeq(<<96, 0, 0, 0>>, raw) -> Ok(<<"OsSpecific", raw>>)
      [] OTHER -> Err("InvalidSectionHeaderType", raw)

SectionHeaderType_parse_bytes(bytes, endianness) ==
    IF Len(bytes) < 4 THEN Err("InsufficientPartLength", Len(bytes))
    ELSE LET r == u32_from_bytes(bytes, endianness)
         IN  IF r.tag = "Panic" THEN Panic ELSE SectionHeaderType_parse_u32(r.val)

\* the constants of the bitflags! block, as u64 digits
SectionHeaderFlags_consts ==
    { <<0, 0, 0, 0, 0, 0, 0, 1>>,     \* WRITE            0x1
      <<0, 0, 0, 0, 0, 0, 0, 2>>,     \* ALLOC            0x2
      <<0, 0, 0, 0, 0, 0, 0, 4>>,     \* EXEC             0x4
      <<0, 0, 0, 0, 0, 0, 0, 16>>,    \* MERGE            0x10
      <<0, 0, 0, 0, 0, 0, 0, 32>>,    \* STRINGS          0x20
      <<0, 0, 0, 0, 0, 0, 0, 64>>,    \* INFO_LINK        0x40
      <<0, 0, 0, 0, 0, 0, 0, 128>>,   \* LINK_ORDER       0x80
      <<0, 0, 0, 0, 0, 0, 1, 0>>,     \* OS_NONCONFORMING 0x100
      <<0, 0, 0, 0, 0, 0, 2, 0>>,     \* GROUP            0x200
      <<0, 0, 0, 0, 0, 0, 4, 0>>,     \* THREAD_LOCAL     0x400
      <<0, 0, 0, 0, 15, 240, 0, 0>>,  \* MASK_OS          0x0FF00000
      <<0, 0, 0, 0, 240, 0, 0, 0>>,   \* MASK_PROCESSOR   0xF0000000
      <<0, 0, 0, 0, 4, 0, 0, 0>>,     \* ORDERED          0x4000000
      <<0, 0, 0, 0, 8, 0, 0, 0>> }    \* EXCLUDE          0x8000000

\* bit k (0: least significant) of the byte b
Bit(b, k) == (b \div (2 ^ k)) % 2

\* the test looking at the low 32 bits only
SectionHeaderFlags_from_bits_ok_low(raw) ==
    \A i \in 5..8 : \A k \in 0..7 :
        Bit(raw[i], k) = 1 => \E f \in SectionHeaderFlags_consts : Bit(f[i], k) = 1

\* SectionHeaderFlags::from_bits accepts raw iff every set bit is a bit of
\* some declared flag
SectionHeaderFlags_from_bits_ok(raw) ==
    \A i \in 1..8 : \A k \in 0..7 :
        Bit(raw[i], k) = 1 => \E f \in SectionHeaderFlags_consts : Bit(f[i], k) = 1

SectionHeaderFlags_parse_u64(raw) ==
    IF SectionHeaderFlags_from_bits_ok(raw) THEN Ok(raw)
    ELSE Err("InvalidSectionHeaderFlags", raw)

SectionHeaderFlags_parse_bytes(bytes, word_width, endianness) ==
    IF Len(bytes) < WordWidth_size(word_width)
    THEN Err("InsufficientPartLength", Len(bytes))
    ELSE LET r == IF word_width = "Width32"
                  THEN u32_from_bytes(bytes, endianness)
                  ELSE u64_from_bytes(bytes, endianness)
         IN  IF r.tag = "Panic" THEN Panic
             ELSE SectionHeaderFlags_parse_u64(
                      IF word_width = "Width32" THEN Zeros(4) \o r.val ELSE r.val)

\* the length check that accepts every slice
UnnamedSectionHeader_check_length_never(expected, actual) == Ok(<<>>)

UnnamedSectionHeader_check_length(expected, actual) ==
    IF actual < expected THEN Err("InsufficientSectionHeaderLength", actual)
    ELSE Ok(<<>>)

\* the minimum entry length of the given word width
UnnamedSectionHeader_size(word_width) == IF word_width = "Width32" THEN 40 ELSE 64

\* [name_index, typ, flags, address, offset, size, link, info, align, entry_size]
UnnamedSectionHeader_offsets(word_width) ==
    IF word_width = "Width32"
    THEN <<0, 4, 8, 12, 16, 20, 24, 28, 32, 36>>
    ELSE <<0, 4, 8, 16, 24, 32, 40, 44, 48, 56>>

UnnamedSectionHeader_parse_bytes(bytes, word_width, endianness) ==
    LET len1 == UnnamedSectionHeader_check_length(
                    UnnamedSectionHeader_size(word_width), Len(bytes))
        offsets == UnnamedSectionHeader_offsets(word_width)
        name_index ==
            AtSliceFrom(bytes, offsets[1],
                        u32_from_bytes(SliceFrom(bytes, offsets[1]), endianness))
        typ ==
            AtSliceFrom(bytes, offsets[2],
                        SectionHeaderType_parse_bytes(SliceFrom(bytes, offsets[2]), endianness))
        flags ==
            AtSliceFrom(bytes, offsets[3],
                        SectionHeaderFlags_parse_bytes(SliceFrom(bytes, offsets[3]), word_width, endianness))
        address ==
            AtSliceFrom(bytes, offsets[4],
                        Word_parse_bytes(SliceFrom(bytes, offsets[4]), word_width, endianness))
        offset ==
            AtSliceFrom(bytes, offsets[5],
                        Word_parse_bytes(SliceFrom(bytes, offsets[5]), word_width, endianness))
        size ==
            AtSliceFrom(bytes, offsets[6],
                        Word_parse_bytes(SliceFrom(bytes, offsets[6]), word_width, endianness))
        link ==
            AtSliceFrom(bytes, offsets[7],
                        u32_from_bytes(SliceFrom(bytes, offsets[7]), endianness))
        info ==
            AtSliceFrom(bytes, offsets[8],
                        u32_from_bytes(SliceFrom(bytes, offsets[8]), endianness))
        align ==
            AtSliceFrom(bytes, offsets[9],
                        Word_parse_bytes(SliceFrom(bytes, offsets[9]), word_width, endianness))
        entry_size ==
            AtSliceFrom(bytes, offsets[10],
                        Word_parse_bytes(SliceFrom(bytes, offsets[10]), word_width, endianness))
    IN  IF ~IsOk(len1) THEN len1
        ELSE IF ~IsOk(name_index) THEN name_index
        ELSE IF ~IsOk(typ) THEN typ
        ELSE IF ~IsOk(flags) THEN flags
        ELSE IF ~IsOk(address) THEN address
        ELSE IF ~IsOk(offset) THEN offset
        ELSE IF ~IsOk(size) THEN size
        ELSE IF ~IsOk(link) THEN link
        ELSE IF ~IsOk(info) THEN info
        ELSE IF ~IsOk(align) THEN align
        ELSE IF Word_to_u64(align.val) # Zeros(8)
                /\ ~is_power_of_two(Word_to_u64(align.val))
             THEN Err("InvalidAlignment", Word_to_u64(align.val))
        ELSE IF ~IsOk(entry_size) THEN entry_size
        ELSE Ok([name_index |-> name_index.val,
                 typ |-> typ.val,
                 flags |-> flags.val,
                 address |-> address.val,
                 offset |-> offset.val,
                 size |-> size.val,
                 link |-> link.val,
                 info |-> info.val,
                 align |-> align.val,
                 entry_size |-> entry_size.val])

\* `as usize` of a u32 / u64.  Every buffer of the model is shorter than
\* 2^24 bytes, so a value of 2^24 or more is represented by 2^24.
Huge == 16777216

as_usize(d) ==
    LET n == Len(d)
    IN  IF \E i \in 1..(n - 3) : d[i] # 0 THEN Huge
        ELSE d[n - 2] * 65536 + d[n - 1] * 256 + d[n]

\* String::from_utf8 accepts the byte sequence s
RECURSIVE Utf8Valid(_)
Utf8Valid(s) ==
    LET n == Len(s)
        Cont(i) == i <= n /\ s[i] >= 128 /\ s[i] <= 191
        In(i, lo, hi) == i <= n /\ s[i] >= lo /\ s[i] <= hi
        b == s[1]
    IN  IF n = 0 THEN TRUE
        ELSE IF b < 128 THEN Utf8Valid(SliceFrom(s, 1))
        ELSE IF b >= 194 /\ b <= 223
             THEN Cont(2) /\ Utf8Valid(SliceFrom(s, 2))
        ELSE IF b = 224
             THEN In(2, 160, 191) /\ Cont(3) /\ Utf8Valid(SliceFrom(s, 3))
        ELSE IF (b >= 225 /\ b <= 236) \/ b = 238 \/ b = 239
             THEN Cont(2) /\ Cont(3) /\ Utf8Valid(SliceFrom(s, 3))
        ELSE IF b = 237
             THEN In(2, 128, 159) /\ Cont(3) /\ Utf8Valid(SliceFrom(s, 3))
        ELSE IF b = 240
             THEN In(2, 144, 191) /\ Cont(3) /\ Cont(4) /\ Utf8Valid(SliceFrom(s, 4))
        ELSE IF b >= 241 /\ b <= 243
             THEN Cont(2) /\ Cont(3) /\ Cont(4) /\ Utf8Valid(SliceFrom(s, 4))
        ELSE IF b = 244
             THEN In(2, 128, 143) /\ Cont(3) /\ Cont(4) /\ Utf8Valid(SliceFrom(s, 4))
        ELSE FALSE

\* the resolution keeping the terminator in the name
UnnamedSectionHeader_to_named_with_nul(self, names_table) ==
    LET index == as_usize(self.name_index)
    IN  IF index > Len(names_table) THEN Panic
        ELSE LET name_bytes == SliceFrom(names_table, index)
                 nulls == {i \in 1..Len(name_bytes) : name_bytes[i] = 0}
        IN  IF nulls = {} THEN Err("UnterminatedString", <<>>)
        ELSE LET null_index == CHOOSE i \in nulls : \A j \in nulls : i <= j
                 name == SubSeq(name_bytes, 1, null_index)
        IN  IF ~Utf8Valid(name) THEN Err("InvalidSectionName", name)
        ELSE Ok([name |-> name,
                 typ |-> self.typ,
                 flags |-> self.flags,
                 address |-> self.address,
                 offset |-> self.offset,
                 size |-> self.size,
                 link |-> self.link,
                 info |-> self.info,
                 align |-> self.align,
                 entry_size |-> self.entry_size])

UnnamedSectionHeader_to_named(self, names_table) ==
    LET index == as_usize(self.name_index)
    IN  IF index > Len(names_table) THEN Panic    \* &names_table[index..]
        ELSE LET name_bytes == SliceFrom(names_table, index)
                 nulls == {i \in 1..Len(name_bytes) : name_bytes[i] = 0}
        IN  IF nulls = {} THEN Err("UnterminatedString", <<>>)
        ELSE LET null_index == CHOOSE i \in nulls : \A j \in nulls : i <= j
                 name == SubSeq(name_bytes, 1, null_index - 1)
        IN  IF ~Utf8Valid(name) THEN Err("InvalidSectionName", name)
        ELSE Ok([name |-> name,
                 typ |-> self.typ,
                 flags |-> self.flags,
                 address |-> self.address,
                 offset |-> self.offset,
                 size |-> self.size,
                 link |-> self.link,
                 info |-> self.info,
                 align |-> self.align,
                 entry_size |-> self.entry_size])

----------------------------------------------------------------------------
(* metadata.rs: the orchestrator Metadata::parse_file *)

\* a * b on u16 operands: a build with overflow checks panics on overflow,
\* a build without them keeps the low 16 bits
u16_mul(a, b, bld) ==
    IF a * b < 65536 THEN Ok(a * b)
    ELSE IF bld = "debug" THEN Panic
    ELSE Ok((a * b) % 65536)

\* the wrappers of MetadataParseError
InvalidELF(e) == [tag |-> "Err", name |-> "InvalidELF", arg |-> e]

IOError(kind) == [tag |-> "Err", name |-> "IOError", arg |-> kind]

\* the file holding the given bytes: its length and its bytes by offset,
\* where an offset that is not kept holds 0
File(bytes) ==
    [len |-> Len(bytes),
     data |-> [o \in {k - 1 : k \in {i \in 1..Len(bytes) : bytes[i] # 0}}
                  |-> bytes[o + 1]]]

\* the n bytes of the file from offset p
file_bytes(f, p, n) ==
    [i \in 1..n |-> IF (p + i - 1) \in DOMAIN f.data THEN f.data[p + i - 1] ELSE 0]

\* file.read(&mut buf) with a buffer of n bytes at cursor p: the bytes read
file_read(f, p, n) ==
    IF p >= f.len THEN <<>>
    ELSE file_bytes(f, p, IF p + n <= f.len THEN n ELSE f.len - p)

\* file.read_exact(buf) with a buffer of n bytes at cursor p
file_read_exact(f, p, n) ==
    IF n = 0 THEN Ok(<<>>)
    ELSE IF p + n > f.len THEN IOError("UnexpectedEof")
    ELSE Ok(file_bytes(f, p, n))

\* the collection skipping an entry that fails to decode
RECURSIVE parse_program_headers_skipping(_, _, _, _)
parse_program_headers_skipping(hdr, raw_pheaders, bld, i) ==
    IF i >= hdr.pheader_entries THEN Ok(<<>>)
    ELSE LET offset == u16_mul(i, hdr.pheader_entry_size, bld)
         IN  IF ~IsOk(offset) THEN Panic
             ELSE IF offset.val > Len(raw_pheaders) THEN Panic
             ELSE LET pheader == ProgramHeader_parse_bytes(
                                     SliceFrom(raw_pheaders, offset.val),
                                     hdr.word_width, hdr.endianness)
                      rest == parse_program_headers_skipping(hdr, raw_pheaders,
                                                             bld, i + 1)
             IN  IF pheader.tag = "Panic" THEN Panic
                 ELSE IF ~IsOk(rest) THEN rest
                 ELSE IF ~IsOk(pheader) THEN rest
                 ELSE Ok(<<pheader.val>> \o rest.val)

\* the collection decoding every entry and reporting the error of the last
\* entry that fails
RECURSIVE parse_program_headers_reporting_last(_, _, _, _)
parse_program_headers_reporting_last(hdr, raw_pheaders, bld, i) ==
    IF i >= hdr.pheader_entries THEN Ok(<<>>)
    ELSE LET offset == u16_mul(i, hdr.pheader_entry_size, bld)
         IN  IF ~IsOk(offset) THEN Panic
             ELSE IF offset.val > Len(raw_pheaders) THEN Panic
             ELSE LET pheader == ProgramHeader_parse_bytes(
                                     SliceFrom(raw_pheaders, offset.val),
                                     hdr.word_width, hdr.endianness)
                      rest == parse_program_headers_reporting_last(
                                  hdr, raw_pheaders, bld, i + 1)
             IN  IF pheader.tag = "Panic" THEN Panic
                 ELSE IF ~IsOk(rest) THEN rest
                 ELSE IF ~IsOk(pheader) THEN InvalidELF(pheader)
                 ELSE Ok(<<pheader.val>> \o rest.val)

\* the collection decoding every entry from its own entry_size bytes
RECURSIVE parse_program_headers_own_bytes(_, _, _, _)
parse_program_headers_own_bytes(hdr, raw_pheaders, bld, i) ==
    IF i >= hdr.pheader_entries THEN Ok(<<>>)
    ELSE LET offset == u16_mul(i, hdr.pheader_entry_size, bld)
         IN  IF ~IsOk(offset) THEN Panic
             ELSE IF offset.val > Len(raw_pheaders) THEN Panic
             ELSE LET pheader == ProgramHeader_parse_bytes(
                                     SubSeq(raw_pheaders, offset.val + 1,
                                            offset.val + hdr.pheader_entry_size),
                                     hdr.word_width, hdr.endianness)
             IN  IF pheader.tag = "Panic" THEN Panic
                 ELSE IF ~IsOk(pheader) THEN InvalidELF(pheader)
                 ELSE LET rest == parse_program_headers_own_bytes(
                                      hdr, raw_pheaders, bld, i + 1)
                 IN  IF ~IsOk(rest) THEN rest
                     ELSE Ok(<<pheader.val>> \o rest.val)

\* entries i.. of the program header table, collected until the first error
RECURSIVE parse_program_headers_from(_, _, _, _)
parse_program_headers_from(hdr, raw_pheaders, bld, i) ==
    IF i >= hdr.pheader_entries THEN Ok(<<>>)
    ELSE LET offset == u16_mul(i, hdr.pheader_entry_size, bld)
         IN  IF ~IsOk(offset) THEN Panic
             ELSE IF offset.val > Len(raw_pheaders) THEN Panic
             ELSE LET pheader == ProgramHeader_parse_bytes(
                                     SliceFrom(raw_pheaders, offset.val),
                                     hdr.word_width, hdr.endianness)
             IN  IF pheader.tag = "Panic" THEN Panic
                 ELSE IF ~IsOk(pheader) THEN InvalidELF(pheader)
                 ELSE LET rest == parse_program_headers_from(hdr, raw_pheaders,
                                                             bld, i + 1)
                 IN  IF ~IsOk(rest) THEN rest
                     ELSE Ok(<<pheader.val>> \o rest.val)

Metadata_parse_program_headers(hdr, raw_pheaders, bld) ==
    parse_program_headers_from(hdr, raw_pheaders, bld, 0)

\* entries i.. of the section header table, collected until the first error
RECURSIVE parse_section_headers_from(_, _, _, _)
parse_section_headers_from(hdr, raw_sheaders, bld, i) ==
    IF i >= hdr.sheader_entries THEN Ok(<<>>)
    ELSE LET offset == u16_mul(i, hdr.sheader_entry_size, bld)
         IN  IF ~IsOk(offset) THEN Panic
             ELSE IF offset.val > Len(raw_sheaders) THEN Panic
             ELSE LET sheader == UnnamedSectionHeader_parse_bytes(
                                     SliceFrom(raw_sheaders, offset.val),
                                     hdr.word_width, hdr.endianness)
             IN  IF sheader.tag = "Panic" THEN Panic
                 ELSE IF ~IsOk(sheader) THEN InvalidELF(sheader)
                 ELSE LET rest == parse_section_headers_from(hdr, raw_sheaders,
                                                             bld, i + 1)
                 IN  IF ~IsOk(rest) THEN rest
                     ELSE Ok(<<sheader.val>> \o rest.val)

Metadata_parse_section_headers(hdr, raw_sheaders, bld) ==
    parse_section_headers_from(hdr, raw_sheaders, bld, 0)

\* the collection dropping a section whose name does not resolve
RECURSIVE to_named_dropping(_, _, _)
to_named_dropping(sheaders, buf, i) ==
    IF i > Len(sheaders) THEN Ok(<<>>)
    ELSE LET named == UnnamedSectionHeader_to_named(sheaders[i], buf)
             rest == to_named_dropping(sheaders, buf, i + 1)
         IN  IF named.tag = "Panic" THEN Panic
             ELSE IF ~IsOk(rest) THEN rest
             ELSE IF ~IsOk(named) THEN rest
             ELSE Ok(<<named.val>> \o rest.val)

\* unnamed_section_headers.into_iter().map(to_named).collect(), from entry i
RECURSIVE to_named_from(_, _, _)
to_named_from(sheaders, buf, i) ==
    IF i > Len(sheaders) THEN Ok(<<>>)
    ELSE LET named == UnnamedSectionHeader_to_named(sheaders[i], buf)
         IN  IF named.tag = "Panic" THEN Panic
             ELSE IF ~IsOk(named) THEN InvalidELF(named)
             ELSE LET rest == to_named_from(sheaders, buf, i + 1)
             IN  IF ~IsOk(rest) THEN rest
                 ELSE Ok(<<named.val>> \o rest.val)

\* the lookup taking the first section whatever the index
name_table_section_first(hdr, sheaders) ==
    IF Len(sheaders) > 0 THEN Ok(sheaders[1]) ELSE NoResult

\* unnamed_section_headers.get(header.section_names_index() as usize)
name_table_section(hdr, sheaders) ==
    IF hdr.section_names_index < Len(sheaders)
    THEN Ok(sheaders[hdr.section_names_index + 1])
    ELSE NoResult

Metadata_new(hdr, program_headers, section_headers) ==
    [header |-> hdr,
     program_headers |-> program_headers,
     section_headers |-> section_headers]

Finish(r) ==
    /\ pc' = "done"
    /\ result' = r

\* parse_file, lines 48-57: read the header region and decode it
ReadHeader ==
    /\ pc = "read_header"
    /\ UNCHANGED <<call, ret, hbytes, hres, pin, pres, file, build, pheaders, unnamed>>
    /\ \E fault \in BOOLEAN :
          IF fault
          THEN /\ ops' = Append(ops, [op |-> "read", len |-> 64, ok |-> FALSE])
               /\ Finish(IOError("Other"))
               /\ UNCHANGED <<pos, header>>
          ELSE LET header_buf == file_read(file, pos, 64)
                   parsed == Header_parse_bytes(header_buf)
               IN  /\ ops' = Append(ops, [op |-> "read", len |-> 64, ok |-> TRUE])
                   /\ pos' = pos + Len(header_buf)
                   /\ IF parsed.tag = "Panic"
                      THEN Finish(Panic) /\ UNCHANGED header
                      ELSE IF ~IsOk(parsed)
                      THEN Finish(InvalidELF(parsed)) /\ UNCHANGED header
                      ELSE /\ header' = parsed
                           /\ pc' = "seek_ph"
                           /\ UNCHANGED result

\* parse_program_headers_from_file, lines 70-76
SeekProgramHeaders ==
    /\ pc = "seek_ph"
    /\ UNCHANGED <<call, ret, hbytes, hres, pin, pres, file, build, header, pheaders, unnamed>>
    /\ LET hdr == header.val
           pheader_offset == as_usize(Word_to_u64(hdr.program_header_start))
           pheader_total_size ==
               u16_mul(hdr.pheader_entries, hdr.pheader_entry_size, build)
       IN  IF ~IsOk(pheader_total_size)
           THEN Finish(Panic) /\ UNCHANGED <<pos, ops>>
           ELSE \E fault \in BOOLEAN :
                   /\ ops' = Append(ops, [op |-> "seek", to |-> pheader_offset,
                                          ok |-> ~fault])
                   /\ IF fault
                      THEN Finish(IOError("Other")) /\ UNCHANGED pos
                      ELSE /\ pos' = pheader_offset
                           /\ pc' = "read_ph"
                           /\ UNCHANGED result

\* parse_program_headers_from_file, lines 77-80, and parse_program_headers
ReadProgramHeaders ==
    /\ pc = "read_ph"
    /\ UNCHANGED <<call, ret, hbytes, hres, pin, pres, file, build, header, unnamed>>
    /\ LET hdr == header.val
           pheader_total_size ==
               u16_mul(hdr.pheader_entries, hdr.pheader_entry_size, build).val
           buf == file_read_exact(file, pos, pheader_total_size)
       IN  \E fault \in {FALSE} \cup {b \in {TRUE} : pheader_total_size > 0} :
              /\ ops' = Append(ops, [op |-> "read_exact", len |-> pheader_total_size,
                                     ok |-> ~fault /\ IsOk(buf)])
              /\ IF fault
                 THEN Finish(IOError("Other")) /\ UNCHANGED <<pos, pheaders>>
                 ELSE IF ~IsOk(buf)
                 THEN Finish(buf) /\ UNCHANGED <<pos, pheaders>>
                 ELSE LET parsed == Metadata_parse_program_headers(hdr, buf.val, build)
                      IN  /\ pos' = pos + pheader_total_size
                          /\ IF ~IsOk(parsed)
                             THEN Finish(parsed) /\ UNCHANGED pheaders
                             ELSE /\ pheaders' = parsed
                                  /\ pc' = "seek_sh"
                                  /\ UNCHANGED result

\* parse_section_headers_from_file, lines 109-115
SeekSectionHeaders ==
    /\ pc = "seek_sh"
    /\ UNCHANGED <<call, ret, hbytes, hres, pin, pres, file, build, header, pheaders, unnamed>>
    /\ LET hdr == header.val
           sheader_offset == as_usize(Word_to_u64(hdr.section_header_start))
           sheader_total_size ==
               u16_mul(hdr.sheader_entries, hdr.sheader_entry_size, build)
       IN  IF ~IsOk(sheader_total_size)
           THEN Finish(Panic) /\ UNCHANGED <<pos, ops>>
           ELSE \E fault \in BOOLEAN :
                   /\ ops' = Append(ops, [op |-> "seek", to |-> sheader_offset,
                                          ok |-> ~fault])
                   /\ IF fault
                      THEN Finish(IOError("Other")) /\ UNCHANGED pos
                      ELSE /\ pos' = sheader_offset
                           /\ pc' = "read_sh"
                           /\ UNCHANGED result

\* parse_section_headers_from_file, lines 116-119, and parse_section_headers
ReadSectionHeaders ==
    /\ pc = "read_sh"
    /\ UNCHANGED <<call, ret, hbytes, hres, pin, pres, file, build, header, pheaders>>
    /\ LET hdr == header.val
           sheader_total_size ==
               u16_mul(hdr.sheader_entries, hdr.sheader_entry_size, build).val
           buf == file_read_exact(file, pos, sheader_total_size)
       IN  \E fault \in {FALSE} \cup {b \in {TRUE} : sheader_total_size > 0} :
              /\ ops' = Append(ops, [op |-> "read_exact", len |-> sheader_total_size,
                                     ok |-> ~fault /\ IsOk(buf)])
              /\ IF fault
                 THEN Finish(IOError("Other")) /\ UNCHANGED <<pos, unnamed>>
                 ELSE IF ~IsOk(buf)
                 THEN Finish(buf) /\ UNCHANGED <<pos, unnamed>>
                 ELSE LET parsed == Metadata_parse_section_headers(hdr, buf.val, build)
                      IN  /\ pos' = pos + sheader_total_size
                          /\ IF ~IsOk(parsed)
                             THEN Finish(parsed) /\ UNCHANGED unnamed
                             ELSE /\ unnamed' = parsed
                                  /\ pc' = "seek_names"
                                  /\ UNCHANGED result

\* parse_named_section_headers_from_file, lines 130-147
SeekNameTable ==
    /\ pc = "seek_names"
    /\ UNCHANGED <<call, ret, hbytes, hres, pin, pres, file, build, header, pheaders, unnamed>>
    /\ LET hdr == header.val
           sheader == name_table_section(hdr, unnamed.val)
       IN  IF ~IsOk(sheader)
           THEN /\ Finish(Ok(Metadata_new(hdr, pheaders.val, <<>>)))
                /\ UNCHANGED <<pos, ops>>
           ELSE IF sheader.val.typ # <<"StringTable">>
           THEN /\ Finish(InvalidELF(Err("InvalidSectionNameTableType",
                                         sheader.val.typ)))
                /\ UNCHANGED <<pos, ops>>
           ELSE LET name_table_offset == as_usize(Word_to_u64(sheader.val.offset))
                IN  \E fault \in BOOLEAN :
                       /\ ops' = Append(ops, [op |-> "seek", to |-> name_table_offset,
                                              ok |-> ~fault])
                       /\ IF fault
                          THEN Finish(IOError("Other")) /\ UNCHANGED pos
                          ELSE /\ pos' = name_table_offset
                               /\ pc' = "read_names"
                               /\ UNCHANGED result

\* parse_named_section_headers_from_file, lines 148-156, and parse_file line 61
ReadNameTable ==
    /\ pc = "read_names"
    /\ UNCHANGED <<call, ret, hbytes, hres, pin, pres, file, build, header, pheaders, unnamed>>
    /\ LET hdr == header.val
           sheader == name_table_section(hdr, unnamed.val).val
           name_table_length == as_usize(Word_to_u64(sheader.size))
           buf == file_read_exact(file, pos, name_table_length)
       IN  \E fault \in {FALSE} \cup {b \in {TRUE} : name_table_length > 0} :
              /\ ops' = Append(ops, [op |-> "read_exact", len |-> name_table_length,
                                     ok |-> ~fault /\ IsOk(buf)])
              /\ IF fault
                 THEN Finish(IOError("Other")) /\ UNCHANGED pos
                 ELSE IF ~IsOk(buf)
                 THEN Finish(buf) /\ UNCHANGED pos
                 ELSE LET named == to_named_from(unnamed.val, buf.val, 1)
                      IN  /\ pos' = pos + name_table_length
                          /\ IF ~IsOk(named)
                             THEN Finish(named)
                             ELSE Finish(Ok(Metadata_new(hdr, pheaders.val,
                                                         named.val)))

----------------------------------------------------------------------------
(* Input images: byte sequences laid out as the ELF format lays them out *)

\* the n base-256 digits of the natural v (v < 2^24), most significant first
NatDigits(v, n) ==
    [i \in 1..n |-> IF n - i >= 3 THEN 0 ELSE (v \div (256 ^ (n - i))) % 256]

\* a field of the given digits in the byte order of the file
EncDigits(d, en) == IF en = "Little" THEN Reverse(d) ELSE d

Enc(v, n, en) == EncDigits(NatDigits(v, n), en)

\* base with the bytes of patch written at offset at
Put(base, at, patch) ==
    [i \in 1..Len(base) |->
        IF i > at /\ i <= at + Len(patch) THEN patch[i - at] ELSE base[i]]

\* a byte that differs from position to position
Filler(i) == (i * 7 + 3) % 256

WordLen(ww) == IF ww = "Width32" THEN 4 ELSE 8

WidthByte(ww) == IF ww = "Width32" THEN 1 ELSE 2

OrderByte(en) == IF en = "Little" THEN 1 ELSE 2

GoodMagic == <<127, 69, 76, 70>>

\* a whole header: file type Executable, arch X86_64, the given table geometry
HeaderImage(ww, en, phoff, shoff, ehsize, phentsize, phnum, shentsize, shnum,
            shstrndx) ==
    GoodMagic \o <<WidthByte(ww), OrderByte(en), 1, 3, 1>> \o Zeros(7)
    \o Enc(2, 2, en) \o Enc(62, 2, en) \o Enc(1, 4, en)
    \o Enc(4096, WordLen(ww), en) \o Enc(phoff, WordLen(ww), en)
    \o Enc(shoff, WordLen(ww), en)
    \o Enc(5, 4, en) \o Enc(ehsize, 2, en)
    \o Enc(phentsize, 2, en) \o Enc(phnum, 2, en)
    \o Enc(shentsize, 2, en) \o Enc(shnum, 2, en) \o Enc(shstrndx, 2, en)

\* a program header entry; offset, vaddr and align are u64 digit sequences
PhImage(ww, en, typ, flags, offset, vaddr, paddr, align) ==
    LET W(d) == EncDigits(IF ww = "Width32" THEN SubSeq(d, 5, 8) ELSE d, en)
        N(v) == Enc(v, WordLen(ww), en)
    IN  IF ww = "Width32"
        THEN Enc(typ, 4, en) \o W(offset) \o W(vaddr) \o N(paddr) \o N(16) \o N(32)
             \o Enc(flags, 4, en) \o W(align)
        ELSE Enc(typ, 4, en) \o Enc(flags, 4, en) \o W(offset) \o W(vaddr)
             \o N(paddr) \o N(16) \o N(32) \o W(align)

\* a section header entry
ShImage(ww, en, name, typ, flags, addr, offset, size, align) ==
    LET N(v) == Enc(v, WordLen(ww), en)
    IN  Enc(name, 4, en) \o Enc(typ, 4, en) \o N(flags) \o N(addr) \o N(offset)
        \o N(size) \o Enc(0, 4, en) \o Enc(0, 4, en) \o N(align) \o N(0)

----------------------------------------------------------------------------
(* Header::parse_bytes applied to byte slices *)

\* the longest slice handed to Header::parse_bytes
MaxSliceLen == 66

Magics ==
    {GoodMagic, <<126, 69, 76, 70>>, <<127, 70, 76, 70>>, <<127, 69, 77, 70>>,
     <<127, 69, 76, 71>>}

WidthBytes == {1, 2, 3}

OrderBytes == {0, 1, 2}

\* Executable, an unassigned code, 0xFEFF, 0xFF9D
FileTypeCodes == {2, 5, 65279, 65437}

\* 52, 64, their byte-swapped values 0x3400 and 0x4000, and 0
OwnSizes == {52, 64, 13312, 16384, 0}

\* a slice of len bytes, every byte different from its neighbours, with the
\* given magic, word width byte, byte order byte, file type and own_size
HeaderSlice(magic, wwb, enb, ft, own, len) ==
    LET en == IF enb = 2 THEN "Big" ELSE "Little"
        base == [i \in 1..len |-> Filler(i)]
    IN  Put(Put(Put(Put(Put(base, 0, magic), 4, <<wwb>>), 5, <<enb>>),
                16, Enc(ft, 2, en)),
            IF wwb = 2 THEN 52 ELSE 40, Enc(own, 2, en))

\* no call of another decoder
NoCall == [fn |-> "none"]

CallIdle ==
    /\ call = NoCall
    /\ ret = NoResult

\* the variables of Metadata::parse_file before it is called
MetadataIdle ==
    /\ file = File(<<>>)
    /\ build = "release"
    /\ pc = "idle"
    /\ pos = 0
    /\ ops = <<>>
    /\ header = NoResult
    /\ pheaders = NoResult
    /\ unnamed = NoResult
    /\ result = NoResult

InitHeader ==
    /\ \E magic \in Magics, wwb \in WidthBytes, enb \in OrderBytes,
          ft \in FileTypeCodes, own \in OwnSizes, len \in 0..MaxSliceLen :
            hbytes = HeaderSlice(magic, wwb, enb, ft, own, len)
    /\ hres = NoResult
    /\ pin = [bytes |-> <<>>, ww |-> "Width32", en |-> "Little"]
    /\ pres = NoResult
    /\ MetadataIdle
    /\ CallIdle

ParseHeader ==
    /\ hres = NoResult
    /\ hres' = Header_parse_bytes(hbytes)
    /\ UNCHANGED <<call, ret, hbytes, pin, pres, file, build, pc, pos, ops, header, pheaders,
                   unnamed, result>>

NextHeader == ParseHeader

SpecHeader == InitHeader /\ [][NextHeader]_vars

----------------------------------------------------------------------------
(* Claims about Header::parse_bytes, checked under SpecHeader *)

\* the 16-bit value at byte offset at of the slice, in the order of byte 5
FieldU16(bytes, at) ==
    IF bytes[6] = 1 THEN bytes[at + 1] + 256 * bytes[at + 2]
    ELSE 256 * bytes[at + 1] + bytes[at + 2]

\* the n-byte value at byte offset at, as digits, in the order of byte 5
FieldDigits(bytes, at, n) ==
    [i \in 1..n |-> IF bytes[6] = 1 THEN bytes[at + n + 1 - i] ELSE bytes[at + i]]

HeaderCalled == hres # NoResult

\* length, magic, word width and byte order of the slice are valid
HeaderFramingValid ==
    /\ Len(hbytes) >= 52
    /\ SubSeq(hbytes, 1, 4) = <<127, 69, 76, 70>>
    /\ hbytes[5] \in {1, 2}
    /\ Len(hbytes) >= (IF hbytes[5] = 1 THEN 52 ELSE 64)
    /\ hbytes[6] \in {1, 2}

FileTypeCodeValid(c) == c \in 0..4 \/ c >= 65280

\* the own_size field of the slice
OwnSizeField == FieldU16(hbytes, IF hbytes[5] = 1 THEN 40 ELSE 52)

RequiredSize == IF hbytes[5] = 1 THEN 52 ELSE 64

\* C5: a header that is valid except that own_size differs from the
\* required length is rejected with the dedicated error
\* InvalidHeaderSize(own_size).
C5_InvalidHeaderSize ==
    (/\ HeaderCalled
     /\ HeaderFramingValid
     /\ FileTypeCodeValid(FieldU16(hbytes, 16))
     /\ OwnSizeField # RequiredSize)
    => /\ IsErr(hres, "InvalidHeaderSize")
       /\ hres.arg = OwnSizeField

\* C6: an accepted header has own_size 52 (Width32) or 64 (Width64).
C6_AcceptedOwnSize ==
    (HeaderCalled /\ IsOk(hres))
    => /\ hres.val.word_width = "Width32" => OwnSizeField = 52
       /\ hres.val.word_width = "Width64" => OwnSizeField = 64
       /\ hres.val.word_width = (IF hbytes[5] = 1 THEN "Width32" ELSE "Width64")

C6_Witness ==
    /\ HeaderCalled
    /\ IsOk(hres)
    /\ hres.val.word_width = "Width64"
    /\ hres.val.endianness = "Big"

\* C7: a slice shorter than 52 bytes, and a 64-bit slice with valid magic
\* of 52 to 63 bytes, is rejected with InsuffcientHeaderLength(its length).
C7_ShortSlice ==
    (/\ HeaderCalled
     /\ \/ Len(hbytes) < 52
        \/ /\ Len(hbytes) \in 52..63
           /\ SubSeq(hbytes, 1, 4) = <<127, 69, 76, 70>>
           /\ hbytes[5] = 2)
    => /\ IsErr(hres, "InsuffcientHeaderLength")
       /\ hres.arg = Len(hbytes)

C7_Witness ==
    /\ HeaderCalled
    /\ Len(hbytes) = 55
    /\ SubSeq(hbytes, 1, 4) = <<127, 69, 76, 70>>
    /\ hbytes[5] = 2
    /\ IsErr(hres, "InsuffcientHeaderLength")

\* C8: on a slice of at least 52 bytes the result is the NoELF error exactly
\* when bytes [0..4) are not 7F 45 4C 46, and the error carries those four
\* bytes as a little-endian 32-bit value, whatever byte 5 is.
C8_Magic ==
    (HeaderCalled /\ Len(hbytes) >= 52)
    => /\ IsErr(hres, "NoELF") <=> SubSeq(hbytes, 1, 4) # <<127, 69, 76, 70>>
       /\ IsErr(hres, "NoELF")
             => hres.arg = <<hbytes[4], hbytes[3], hbytes[2], hbytes[1]>>

C8_Witness ==
    /\ HeaderCalled
    /\ Len(hbytes) >= 52
    /\ hbytes[6] = 2
    /\ IsErr(hres, "NoELF")
    /\ SubSeq(hbytes, 2, 4) = <<69, 76, 70>>

\* C9: every field of an accepted header is the unsigned integer at its
\* layout offset, read in the byte order selected by byte 5.
C9_FieldLayout ==
    (HeaderCalled /\ IsOk(hres))
    => LET h == hres.val
           w32 == hbytes[5] = 1
           W(at) == IF w32 THEN Word32(FieldDigits(hbytes, at, 4))
                    ELSE Word64(FieldDigits(hbytes, at, 8))
       IN  /\ h.header_version = hbytes[7]
           /\ h.os_abi = Abi_from_byte(hbytes[8])
           /\ h.abi_version = hbytes[9]
           /\ h.file_type = FileType_parse_u16(FieldU16(hbytes, 16)).val
           /\ h.arch = Arch_from_u16(FieldU16(hbytes, 18))
           /\ h.version = FieldDigits(hbytes, 20, 4)
           /\ h.entry_point = W(24)
           /\ h.program_header_start = W(IF w32 THEN 28 ELSE 32)
           /\ h.section_header_start = W(IF w32 THEN 32 ELSE 40)
           /\ h.flags = FieldDigits(hbytes, IF w32 THEN 36 ELSE 48, 4)
           /\ h.pheader_entry_size = FieldU16(hbytes, IF w32 THEN 42 ELSE 54)
           /\ h.pheader_entries = FieldU16(hbytes, IF w32 THEN 44 ELSE 56)
           /\ h.sheader_entry_size = FieldU16(hbytes, IF w32 THEN 46 ELSE 58)
           /\ h.sheader_entries = FieldU16(hbytes, IF w32 THEN 48 ELSE 60)
           /\ h.section_names_index = FieldU16(hbytes, IF w32 THEN 50 ELSE 62)

C9_Witness ==
    /\ HeaderCalled
    /\ IsOk(hres)
    /\ hres.val.word_width = "Width32"
    /\ hres.val.endianness = "Big"
    /\ Len(hbytes) > 52

----------------------------------------------------------------------------
(* ProgramHeader::parse_bytes applied to byte slices *)

\* the longest slice handed to ProgramHeader::parse_bytes
MaxEntryLen == 58

EntryLens == {0, 31, 32, 55, 56, MaxEntryLen}

\* 0, 1, 2, 3, 4, 8, 15, 256, 257, 2^31, 2^32, 3 * 2^32, 2^63
AlignValues ==
    { <<0, 0, 0, 0, 0, 0, 0, 0>>, <<0, 0, 0, 0, 0, 0, 0, 1>>,
      <<0, 0, 0, 0, 0, 0, 0, 2>>, <<0, 0, 0, 0, 0, 0, 0, 3>>,
      <<0, 0, 0, 0, 0, 0, 0, 4>>, <<0, 0, 0, 0, 0, 0, 0, 8>>,
      <<0, 0, 0, 0, 0, 0, 0, 15>>, <<0, 0, 0, 0, 0, 0, 1, 0>>,
      <<0, 0, 0, 0, 0, 0, 1, 1>>, <<0, 0, 0, 0, 128, 0, 0, 0>>,
      <<0, 0, 0, 1, 0, 0, 0, 0>>, <<0, 0, 0, 3, 0, 0, 0, 0>>,
      <<128, 0, 0, 0, 0, 0, 0, 0>> }

\* 0, 1, 2, 6, 257, 0x445C0000, 0x445C0001, 2^32, 2^32 + 2
AddressValues ==
    { <<0, 0, 0, 0, 0, 0, 0, 0>>, <<0, 0, 0, 0, 0, 0, 0, 1>>,
      <<0, 0, 0, 0, 0, 0, 0, 2>>, <<0, 0, 0, 0, 0, 0, 0, 6>>,
      <<0, 0, 0, 0, 0, 0, 1, 1>>, <<0, 0, 0, 0, 68, 92, 0, 0>>,
      <<0, 0, 0, 0, 68, 92, 0, 1>>, <<0, 0, 0, 1, 0, 0, 0, 0>>,
      <<0, 0, 0, 1, 0, 0, 0, 2>> }

\* 0, 1, 0x38, 0x40, 2^32
OffsetValues ==
    { <<0, 0, 0, 0, 0, 0, 0, 0>>, <<0, 0, 0, 0, 0, 0, 0, 1>>,
      <<0, 0, 0, 0, 0, 0, 0, 56>>, <<0, 0, 0, 0, 0, 0, 0, 64>>,
      <<0, 0, 0, 1, 0, 0, 0, 0>> }

\* HeaderSegment and the unassigned code 8
SegmentTypeCodes == {6, 8}

WordWidths == {"Width32", "Width64"}

Endiannesses == {"Little", "Big"}

\* an entry image followed by filler, cut to len bytes
EntrySlice(image, len) ==
    [i \in 1..len |-> IF i <= Len(image) THEN image[i] ELSE Filler(i)]

InitProgramHeader ==
    /\ hbytes = <<>>
    /\ hres = NoResult
    /\ \E ww \in WordWidths, en \in Endiannesses, typ \in SegmentTypeCodes,
          offset \in OffsetValues, vaddr \in AddressValues, align \in AlignValues,
          len \in EntryLens :
            pin = [bytes |-> EntrySlice(PhImage(ww, en, typ, 7, offset, vaddr, 0,
                                                align), len),
                   ww |-> ww, en |-> en]
    /\ pres = NoResult
    /\ MetadataIdle
    /\ CallIdle

ParseProgramHeader ==
    /\ pres = NoResult
    /\ pres' = ProgramHeader_parse_bytes(pin.bytes, pin.ww, pin.en)
    /\ UNCHANGED <<call, ret, hbytes, hres, pin, file, build, pc, pos, ops, header, pheaders,
                   unnamed, result>>

NextProgramHeader == ParseProgramHeader

SpecProgramHeader == InitProgramHeader /\ [][NextProgramHeader]_vars

----------------------------------------------------------------------------
(* Claims about ProgramHeader::parse_bytes, checked under SpecProgramHeader *)

\* the n-byte field at byte offset at of the entry, zero-extended to a u64
EntryField(at, n) ==
    Zeros(8 - n) \o [i \in 1..n |-> IF pin.en = "Little" THEN pin.bytes[at + n + 1 - i]
                                    ELSE pin.bytes[at + i]]

EntryWord(at32, at64) ==
    IF pin.ww = "Width32" THEN EntryField(at32, 4) ELSE EntryField(at64, 8)

EntryAlign == EntryWord(28, 48)

EntryVaddr == EntryWord(8, 16)

EntryOffset == EntryWord(4, 8)

\* the entry is long enough and its segment type is one the decoder accepts
EntryDecodable ==
    /\ Len(pin.bytes) >= (IF pin.ww = "Width32" THEN 32 ELSE 56)
    /\ LET t == EntryField(0, 4)
       IN  \/ t[5] = 0 /\ t[6] = 0 /\ t[7] = 0 /\ t[8] <= 7
           \/ t[5] \in 96..127

\* bit q (0: least significant) of a u64
BitAt(d, q) == Bit(d[8 - (q \div 8)], q % 8)

\* the u64 2^q
PowerOfTwo(q) == [i \in 1..8 |-> IF i = 8 - (q \div 8) THEN 2 ^ (q % 8) ELSE 0]

IsPowerOfTwo(d) == \E q \in 0..63 : d = PowerOfTwo(q)

\* v and o agree modulo the power of two a
CongruentMod(v, o, a) ==
    \A q \in 0..63 : (\E e \in (q + 1)..63 : a = PowerOfTwo(e)) => BitAt(v, q) = BitAt(o, q)

AtMostOne(d) == d \in {Zeros(8), One64}

EntryMinimum == IF pin.ww = "Width32" THEN 32 ELSE 56

\* C11: ProgramHeader::parse_bytes fails with the program header length
\* error (InsufficientProgramHeaderLength in common.rs, spelled
\* InvalidProgHeaderLength at the place that returns it) carrying the length
\* of the slice whenever the slice is shorter than 32 bytes (Width32) or
\* 56 bytes (Width64), whatever the bytes are.
C11_ShortEntry ==
    (pres # NoResult /\ Len(pin.bytes) < EntryMinimum)
    => /\ IsErr(pres, "InvalidProgHeaderLength")
       /\ pres.arg = Len(pin.bytes)

\* the 4 bytes at offset at as a u32
EntryU32(at) == SubSeq(EntryField(at, 4), 5, 8)

\* the word of an accepted entry has the width of the call and the given value
IsEntryWord(word, at32, at64) ==
    /\ word.w = (IF pin.ww = "Width32" THEN 32 ELSE 64)
    /\ Len(word.d) = (IF pin.ww = "Width32" THEN 4 ELSE 8)
    /\ Word_to_u64(word) = EntryWord(at32, at64)

\* C12: every accepted entry has segment_type read at 0; for Width32
\* file_offset, virtual_address, physical_address, file_size, memory_size
\* at 4, 8, 12, 16, 20, flags at 24 and alignment at 28; for Width64 flags at
\* 4 and the six words at 8, 16, 24, 32, 40, 48; flags is a 32-bit value.
C12_EntryLayout ==
    IsOk(pres)
    => /\ Ok(pres.val.typ) = ProgramHeaderSegmentType_parse_u32(EntryU32(0))
       /\ IsEntryWord(pres.val.offset, 4, 8)
       /\ IsEntryWord(pres.val.vaddress, 8, 16)
       /\ IsEntryWord(pres.val.paddress, 12, 24)
       /\ IsEntryWord(pres.val.filesize, 16, 32)
       /\ IsEntryWord(pres.val.memsize, 20, 40)
       /\ IsEntryWord(pres.val.alignment, 28, 48)
       /\ pres.val.flags = EntryU32(IF pin.ww = "Width32" THEN 24 ELSE 4)

\* an accepted 64-bit big-endian entry whose words and flags all differ
C12_Witness ==
    /\ IsOk(pres)
    /\ pin.ww = "Width64"
    /\ pin.en = "Big"
    /\ pres.val.flags = <<0, 0, 0, 7>>
    /\ Word_to_u64(pres.val.offset) = <<0, 0, 0, 0, 0, 0, 0, 64>>
    /\ Word_to_u64(pres.val.vaddress) = <<0, 0, 0, 1, 0, 0, 0, 2>>
    /\ Word_to_u64(pres.val.filesize) = <<0, 0, 0, 0, 0, 0, 0, 16>>
    /\ Word_to_u64(pres.val.memsize) = <<0, 0, 0, 0, 0, 0, 0, 32>>
    /\ Word_to_u64(pres.val.alignment) = <<0, 0, 0, 0, 0, 0, 0, 2>>

----------------------------------------------------------------------------
(* The files Metadata::parse_file is run on *)

\* the largest number of program headers / section headers of a file
MaxPh == 2

MaxSh == 2

\* "\0.text\0.data\0"
GoodNames == <<0, 46, 116, 101, 120, 116, 0, 46, 100, 97, 116, 97, 0>>

\* the name offsets of sections 1, 2, 3, ...: ".text", ".data", ""
NameOffset(j) == IF j = 1 THEN 1 ELSE IF j = 2 THEN 7 ELSE 12

Variants ==
    {"good", "unterminated", "badutf8", "badutf8_unterminated", "empty",
     "cut_names", "cut_sh", "cut_ph", "cut_header"}

\* the bytes of the string table section
NamesImage(variant) ==
    CASE variant = "unterminated" -> SubSeq(GoodNames, 1, 12)
      [] variant = "badutf8" -> Put(GoodNames, 2, <<255>>)
      [] variant = "badutf8_unterminated" ->
            Put(SubSeq(GoodNames, 1, 12), 2, <<255>>)
      [] variant = "empty" -> <<>>
      [] OTHER -> GoodNames

\* entries j.. of the program header table: Load entries, from entry phbad
\* on the unassigned segment types 8, 9, ...
RECURSIVE PhTableImage(_, _)
PhTableImage(c, j) ==
    IF j > c.phn THEN <<>>
    ELSE PhImage(c.ww, c.en,
                 IF c.phbad > 0 /\ j >= c.phbad THEN 8 + (j - c.phbad) ELSE 1,
                 j, Zeros(8), Zeros(8), j, Zeros(8))
         \o Zeros(c.pad) \o PhTableImage(c, j + 1)

\* entries j.. of the section header table: ProgramBits entries and the
\* string table, from entry shbad on the unassigned section types 12, 13
RECURSIVE ShTableImage(_, _, _)
ShTableImage(c, j, stroff) ==
    IF j > c.shn THEN <<>>
    ELSE LET names == j = c.stridx + 1 /\ c.strok
         IN  ShImage(c.ww, c.en, NameOffset(j),
                     IF c.shbad > 0 /\ j >= c.shbad THEN 12 + (j - c.shbad)
                     ELSE IF names THEN 3 ELSE 1,
                     2, j,
                     IF names THEN stroff ELSE 0,
                     IF names THEN Len(NamesImage(c.variant)) ELSE 0,
                     4)
             \o ShTableImage(c, j + 1, stroff)

\* header, program header table, section header table, string table
FileImage(c) ==
    LET hsize == Header_size(c.ww)
        phes == ProgramHeader_size(c.ww) + c.pad
        shes == UnnamedSectionHeader_size(c.ww)
        phoff == hsize
        shoff == phoff + c.phn * phes
        stroff == shoff + c.shn * shes
        whole == HeaderImage(c.ww, c.en, phoff, shoff, hsize, phes, c.phn, shes,
                             c.shn, c.stridx)
                 \o PhTableImage(c, 1) \o ShTableImage(c, 1, stroff)
                 \o NamesImage(c.variant)
    IN  CASE c.variant = "cut_names" -> SubSeq(whole, 1, Len(whole) - 1)
          [] c.variant = "cut_sh" -> SubSeq(whole, 1, shoff + 1)
          [] c.variant = "cut_ph" -> SubSeq(whole, 1, phoff + 1)
          [] c.variant = "cut_header" -> SubSeq(whole, 1, 40)
          [] OTHER -> whole

\* files of every word width and byte order without a fault, and files of
\* two layouts with faults from some program header on, from some section
\* header on, in the string table or in the length of the file
FileConfigs ==
    {c \in [ww : WordWidths, en : Endiannesses, phn : 0..MaxPh, phbad : 0..MaxPh,
            shn : 0..MaxSh, shbad : 0..MaxSh, stridx : 0..MaxSh, strok : BOOLEAN,
            variant : Variants, pad : {0, 8}] :
        /\ c.phbad <= c.phn
        /\ c.shbad <= c.shn
        /\ c.stridx <= c.shn
        /\ c.stridx = c.shn => ~c.strok
        /\ \/ c.phbad = 0 /\ c.shbad = 0 /\ c.variant = "good"
           \/ /\ c.pad = 0
              /\ <<c.ww, c.en>> \in {<<"Width32", "Little">>, <<"Width64", "Big">>}}

\* three program headers of 0x8010 bytes each (3 * 0x8010 = 0x18030 does not
\* fit 16 bits), one section header, the string table
OverflowConfig ==
    [ww |-> "Width32", en |-> "Little", phn |-> 3, phbad |-> 0, shn |-> 1,
     shbad |-> 0, stridx |-> 0, strok |-> TRUE, variant |-> "good", pad |-> 32784]

\* the first es bytes of every entry of a table
RECURSIVE CutEntries(_, _)
CutEntries(entries, es) ==
    IF entries = <<>> THEN <<>>
    ELSE SubSeq(Head(entries), 1, es) \o CutEntries(Tail(entries), es)

\* a file whose header declares phn program headers of phes bytes and shn
\* section headers of shes bytes, each table holding the first bytes of
\* well-formed entries; program header 1 is of type Load and the later ones
\* of type phtyp, section 1 is the string table
ShortFileImage(c) ==
    LET hsize == Header_size(c.ww)
        phoff == hsize
        shoff == phoff + c.phn * c.phes
        stroff == shoff + c.shn * c.shes
        phs == [j \in 1..c.phn |->
                   PhImage(c.ww, c.en, IF j = 1 THEN 1 ELSE c.phtyp, j, Zeros(8),
                           Zeros(8), j, Zeros(8))]
        shs == [j \in 1..c.shn |->
                   ShImage(c.ww, c.en, NameOffset(j), IF j = 1 THEN 3 ELSE 1, 2, j,
                           IF j = 1 THEN stroff ELSE 0,
                           IF j = 1 THEN Len(GoodNames) ELSE 0, 4)]
    IN  HeaderImage(c.ww, c.en, phoff, shoff, hsize, c.phes, c.phn, c.shes, c.shn, 0)
        \o CutEntries(phs, c.phes) \o CutEntries(shs, c.shes) \o GoodNames

\* the entry sizes below the minimum m: none, half of it, four bytes short
ShortSizes(m) == {0, m \div 2, m - 4}

\* files with program headers shorter than the minimum of the word width and
\* whole section headers, and files with whole program headers and section
\* headers shorter than the minimum
ShortConfigs ==
    {c \in [ww : WordWidths, en : Endiannesses, phn : 1..MaxPh, phes : 0..56,
            phtyp : {1, 3}, shn : 1..MaxSh, shes : 0..64] :
        \/ /\ c.phes \in ShortSizes(ProgramHeader_size(c.ww))
           /\ c.shes = UnnamedSectionHeader_size(c.ww)
           /\ c.shn = 1
        \/ /\ c.phes = ProgramHeader_size(c.ww)
           /\ c.phtyp = 1
           /\ c.phn = 1
           /\ c.shes \in ShortSizes(UnnamedSectionHeader_size(c.ww))}

Init ==
    /\ hbytes = <<>>
    /\ hres = NoResult
    /\ pin = [bytes |-> <<>>, ww |-> "Width32", en |-> "Little"]
    /\ pres = NoResult
    /\ \/ \E c \in FileConfigs \cup {OverflowConfig} : file = File(FileImage(c))
       \/ \E c \in ShortConfigs : file = File(ShortFileImage(c))
    /\ build \in {"debug", "release"}
    /\ pc = "read_header"
    /\ pos = 0
    /\ ops = <<>>
    /\ header = NoResult
    /\ pheaders = NoResult
    /\ unnamed = NoResult
    /\ result = NoResult
    /\ CallIdle

Next ==
    \/ ReadHeader
    \/ SeekProgramHeaders
    \/ ReadProgramHeaders
    \/ SeekSectionHeaders
    \/ ReadSectionHeaders
    \/ SeekNameTable
    \/ ReadNameTable

Spec == Init /\ [][Next]_vars

----------------------------------------------------------------------------
(* Claims about Metadata::parse_file, checked under Spec *)

Done == pc = "done"

Returned == result.tag = "Ok"

AllOpsOk == \A i \in 1..Len(ops) : ops[i].ok

\* the section the name-table index of the decoded header selects
NamesIndex == header.val.section_names_index

NamesIndexValid == NamesIndex < Len(unnamed.val)

\* the bytes of the string table the decoded name-table section declares
NamesBytes ==
    LET sh == unnamed.val[NamesIndex + 1]
        at == as_usize(Word_to_u64(sh.offset))
    IN  file_bytes(file, at, as_usize(Word_to_u64(sh.size)))

C2_OperationOrder ==
    /\ Len(ops) <= 7
    /\ \A i \in 1..Len(ops) :
          /\ ops[i].op = (IF i = 1 THEN "read"
                          ELSE IF i \in {2, 4, 6} THEN "seek" ELSE "read_exact")
          /\ i < Len(ops) => ops[i].ok
    /\ Len(ops) >= 2
          => /\ IsOk(header)
             /\ header = Header_parse_bytes(file_read(file, 0, 64))
             /\ ops[2].to = as_usize(Word_to_u64(header.val.program_header_start))
    /\ Len(ops) >= 4
          => /\ IsOk(pheaders)
             /\ Len(pheaders.val) = header.val.pheader_entries
             /\ ops[4].to = as_usize(Word_to_u64(header.val.section_header_start))
    /\ Len(ops) >= 6
          => /\ IsOk(unnamed)
             /\ Len(unnamed.val) = header.val.sheader_entries
             /\ NamesIndexValid
             /\ unnamed.val[NamesIndex + 1].typ = <<"StringTable">>
             /\ ops[6].to = as_usize(Word_to_u64(unnamed.val[NamesIndex + 1].offset))
    /\ Len(ops) = 7
          => ops[7].len = as_usize(Word_to_u64(unnamed.val[NamesIndex + 1].size))

\* all seven operations were performed
C2_Witness ==
    /\ Len(ops) = 7
    /\ Returned

\* the program header decoded from byte offset at of the file
ProgramHeaderAt(at) ==
    IF at > file.len THEN NoResult
    ELSE ProgramHeader_parse_bytes(file_bytes(file, at, file.len - at),
                                   header.val.word_width, header.val.endianness)

\* the section header decoded from byte offset at of the file
SectionHeaderAt(at) ==
    IF at > file.len THEN NoResult
    ELSE UnnamedSectionHeader_parse_bytes(file_bytes(file, at, file.len - at),
                                          header.val.word_width,
                                          header.val.endianness)

\* C3: a Metadata returned for a file whose name-table index is valid has
\* program_header_entry_count program headers and
\* section_header_entry_count section headers, and entry i of each sequence
\* is the one decoded from byte offset i * entry_size of its table.
C3_TableOrder ==
    (Returned /\ NamesIndexValid)
    => LET h == result.val.header
           phs == result.val.program_headers
           shs == result.val.section_headers
           phoff == as_usize(Word_to_u64(h.program_header_start))
           shoff == as_usize(Word_to_u64(h.section_header_start))
       IN  /\ Len(phs) = h.pheader_entries
           /\ Len(shs) = h.sheader_entries
           /\ \A i \in 0..(Len(phs) - 1) :
                 LET e == ProgramHeaderAt(phoff + i * h.pheader_entry_size)
                 IN  IsOk(e) /\ phs[i + 1] = e.val
           /\ \A i \in 0..(Len(shs) - 1) :
                 LET e == SectionHeaderAt(shoff + i * h.sheader_entry_size)
                 IN  /\ IsOk(e)
                     /\ shs[i + 1].typ = e.val.typ
                     /\ shs[i + 1].flags = e.val.flags
                     /\ shs[i + 1].address = e.val.address
                     /\ shs[i + 1].offset = e.val.offset
                     /\ shs[i + 1].size = e.val.size
                     /\ shs[i + 1].align = e.val.align

\* C4: a name-table index that is no index of the decoded section table
\* gives a Metadata with no section headers, without an error and without a
\* seek or read of a string table; an index that selects a section of
\* another type than StringTable gives
\* InvalidSectionNameTableType(that type).
C4_NameTableLookup ==
    (Done /\ IsOk(unnamed))
    => /\ ~NamesIndexValid
             => /\ Returned
                /\ result.val.section_headers = <<>>
                /\ Len(ops) = 5
       /\ (NamesIndexValid /\ unnamed.val[NamesIndex + 1].typ # <<"StringTable">>)
             => /\ IsErr(result, "InvalidELF")
                /\ IsErr(result.arg, "InvalidSectionNameTableType")
                /\ result.arg.arg = unnamed.val[NamesIndex + 1].typ
                /\ Len(ops) = 5

\* two sections were decoded and the index selects neither
C4_Witness ==
    /\ Done
    /\ IsOk(unnamed)
    /\ Len(unnamed.val) = 2
    /\ ~NamesIndexValid
    /\ Returned

----------------------------------------------------------------------------
(* UnnamedSectionHeader::parse_bytes applied to byte slices *)

\* the variables of the header, program header and file decoders at rest
OthersIdle ==
    /\ hbytes = <<>>
    /\ hres = NoResult
    /\ pin = [bytes |-> <<>>, ww |-> "Width32", en |-> "Little"]
    /\ pres = NoResult
    /\ MetadataIdle

\* the longest slice handed to UnnamedSectionHeader::parse_bytes
MaxSectionLen == 66

SectionLens == {0, 39, 40, 63, 64, MaxSectionLen}

\* ProgramBits and the unassigned code 12
SectionTypeCodes == {1, 12}

\* ALLOC | EXEC and the undeclared bit 0x8
SectionFlagCodes == {6, 8}

\* 0x1001 and 0x2000: with the offset 0x40 one pair that is congruent modulo
\* every alignment up to 0x40 and one that is congruent modulo none above 1
SectionAddresses == {4097, 8192}

\* a section entry image with the given alignment, cut or filled to len bytes
SectionSlice(ww, en, typ, flags, addr, align, len) ==
    LET image == ShImage(ww, en, 1, typ, flags, addr, 64, 16, 0)
        field == EncDigits(IF ww = "Width32" THEN SubSeq(align, 5, 8) ELSE align, en)
    IN  EntrySlice(Put(image, IF ww = "Width32" THEN 32 ELSE 48, field), len)

InitSectionHeader ==
    /\ OthersIdle
    /\ \E ww \in WordWidths, en \in Endiannesses, typ \in SectionTypeCodes,
          flags \in SectionFlagCodes, addr \in SectionAddresses,
          align \in AlignValues, len \in SectionLens :
            call = [fn |-> "UnnamedSectionHeader::parse_bytes",
                    bytes |-> SectionSlice(ww, en, typ, flags, addr, align, len),
                    ww |-> ww, en |-> en]
    /\ ret = NoResult

ParseSectionHeader ==
    /\ call.fn = "UnnamedSectionHeader::parse_bytes"
    /\ ret = NoResult
    /\ ret' = UnnamedSectionHeader_parse_bytes(call.bytes, call.ww, call.en)
    /\ UNCHANGED <<call, hbytes, hres, pin, pres, file, build, pc, pos, ops, header,
                   pheaders, unnamed, result>>

NextSectionHeader == ParseSectionHeader

SpecSectionHeader == InitSectionHeader /\ [][NextSectionHeader]_vars

\* the n bytes at offset at of the slice of the call, as a u64
CallField(at, n) ==
    Zeros(8 - n) \o [i \in 1..n |-> IF call.en = "Little" THEN call.bytes[at + n + 1 - i]
                                    ELSE call.bytes[at + i]]

\* the word at offset at32 / at64 of the slice of the call, as a u64
CallWord(at32, at64) ==
    IF call.ww = "Width32" THEN CallField(at32, 4) ELSE CallField(at64, 8)

SectionMinimum == IF call.ww = "Width32" THEN 40 ELSE 64

SectionAlign == CallWord(32, 48)

\* the type and the flags of the entry are ones the decoders accept
SectionTypeAndFlagsValid ==
    /\ IsOk(SectionHeaderType_parse_u32(SubSeq(CallField(4, 4), 5, 8)))
    /\ IsOk(SectionHeaderFlags_parse_u64(CallWord(8, 8)))

\* C13: UnnamedSectionHeader::parse_bytes fails with
\* InsufficientSectionHeaderLength(length of the slice) on a slice shorter
\* than 40 bytes (Width32) or 64 bytes (Width64); a long enough entry with a
\* valid type and valid flags is accepted exactly when align is 0 or a power
\* of two (1 included) and gives InvalidAlignment(align) otherwise, whatever
\* address and offset are.
C13_SectionDecode ==
    (call.fn = "UnnamedSectionHeader::parse_bytes" /\ ret # NoResult)
    => /\ Len(call.bytes) < SectionMinimum
             => /\ IsErr(ret, "InsufficientSectionHeaderLength")
                /\ ret.arg = Len(call.bytes)
       /\ (Len(call.bytes) >= SectionMinimum /\ SectionTypeAndFlagsValid)
             => /\ IsOk(ret) <=> (SectionAlign = Zeros(8) \/ IsPowerOfTwo(SectionAlign))
                /\ ~IsOk(ret)
                      => /\ IsErr(ret, "InvalidAlignment")
                         /\ ret.arg = SectionAlign

\* an accepted entry whose address and offset differ modulo its alignment 8
C13_Witness ==
    /\ call.fn = "UnnamedSectionHeader::parse_bytes"
    /\ IsOk(ret)
    /\ Word_to_u64(ret.val.align) = <<0, 0, 0, 0, 0, 0, 0, 8>>
    /\ Word_to_u64(ret.val.address) = <<0, 0, 0, 0, 0, 0, 16, 1>>
    /\ Word_to_u64(ret.val.offset) = <<0, 0, 0, 0, 0, 0, 0, 64>>

----------------------------------------------------------------------------
(* UnnamedSectionHeader::to_named applied to headers and string tables *)

\* the longest string table handed to to_named
MaxTableLen == 4

\* NUL, 'a', and the two bytes of U+00E9, of which the first alone is no
\* valid UTF-8
TableBytes == {0, 97, 195, 169}

\* the string tables of length n
Tables(n) == [1..n -> TableBytes]

\* two decoded headers that differ in every field but name_index
UnnamedHeaders(name_index) ==
    { [name_index |-> name_index, typ |-> <<"ProgramBits">>,
       flags |-> <<0, 0, 0, 0, 0, 0, 0, 6>>, address |-> Word32(<<0, 0, 16, 0>>),
       offset |-> Word32(<<0, 0, 0, 64>>), size |-> Word32(<<0, 0, 0, 16>>),
       link |-> <<0, 0, 0, 1>>, info |-> <<0, 0, 0, 2>>,
       align |-> Word32(<<0, 0, 0, 4>>), entry_size |-> Word32(<<0, 0, 0, 0>>)],
      [name_index |-> name_index, typ |-> <<"StringTable">>,
       flags |-> <<0, 0, 0, 0, 0, 0, 0, 32>>,
       address |-> Word64(<<0, 0, 0, 1, 0, 0, 32, 0>>),
       offset |-> Word64(<<0, 0, 0, 0, 0, 0, 0, 128>>),
       size |-> Word64(<<0, 0, 0, 0, 0, 0, 0, 24>>),
       link |-> <<0, 0, 0, 3>>, info |-> <<0, 0, 0, 5>>,
       align |-> Word64(<<0, 0, 0, 0, 0, 0, 0, 1>>),
       entry_size |-> Word64(<<0, 0, 0, 0, 0, 0, 0, 8>>)] }

InitToNamed ==
    /\ OthersIdle
    /\ \E n \in 0..MaxTableLen, index \in 0..(MaxTableLen + 2) :
          \E table \in Tables(n), self \in UnnamedHeaders(<<0, 0, 0, index>>) :
             call = [fn |-> "UnnamedSectionHeader::to_named", self |-> self,
                     names_table |-> table]
    /\ ret = NoResult

ToNamed ==
    /\ call.fn = "UnnamedSectionHeader::to_named"
    /\ ret = NoResult
    /\ ret' = UnnamedSectionHeader_to_named(call.self, call.names_table)
    /\ UNCHANGED <<call, hbytes, hres, pin, pres, file, build, pc, pos, ops, header,
                   pheaders, unnamed, result>>

NextToNamed == ToNamed

SpecToNamed == InitToNamed /\ [][NextToNamed]_vars

ToNamedCalled == call.fn = "UnnamedSectionHeader::to_named" /\ ret # NoResult

\* name_index of the call, as a number
NameIndex == as_usize(call.self.name_index)

\* the offsets at or after name_index at which the table holds NUL
Terminators ==
    {q \in 0..(Len(call.names_table) - 1) : q >= NameIndex /\ call.names_table[q + 1] = 0}

\* the offset of the first NUL at or after name_index
FirstTerminator == CHOOSE q \in Terminators : \A r \in Terminators : q <= r

\* the bytes table[name_index .. p) up to the first terminator p
NameBytes == SubSeq(call.names_table, NameIndex + 1, FirstTerminator)

\* C14: when the table holds a NUL at or after name_index, to_named gives a
\* SectionHeader exactly when the bytes from name_index up to the first
\* such NUL are valid text (InvalidSectionName otherwise); its name is
\* exactly those bytes, the terminator excluded, and its other fields are
\* those of the unnamed header.
C14_ResolvedName ==
    (ToNamedCalled /\ Terminators # {})
    => /\ IsOk(ret) <=> Utf8Valid(NameBytes)
       /\ ~IsOk(ret) => IsErr(ret, "InvalidSectionName")
       /\ IsOk(ret)
             => /\ ret.val.name = NameBytes
                /\ ret.val.typ = call.self.typ
                /\ ret.val.flags = call.self.flags
                /\ ret.val.address = call.self.address
                /\ ret.val.offset = call.self.offset
                /\ ret.val.size = call.self.size
                /\ ret.val.link = call.self.link
                /\ ret.val.info = call.self.info
                /\ ret.val.align = call.self.align
                /\ ret.val.entry_size = call.self.entry_size

\* a two-byte name resolved from offset 1 of a table with a second NUL
C14_Witness ==
    /\ ToNamedCalled
    /\ call.names_table = <<0, 195, 169, 0>>
    /\ NameIndex = 1
    /\ IsOk(ret)
    /\ ret.val.name = <<195, 169>>

\* C15: to_named returns UnterminatedString whenever the table holds no NUL
\* at or after name_index, also for a name_index at or beyond the end of
\* the table and for an empty table, and never aborts.
C15_Unterminated ==
    (ToNamedCalled /\ Terminators = {}) => IsErr(ret, "UnterminatedString")

----------------------------------------------------------------------------
(* The primitive decoder u16 / u32 / u64 ::from_bytes applied to byte slices *)

\* the longest slice handed to from_bytes
MaxPrimLen == 9

PrimBytes == {3, 250}

\* the slices of length n: every sequence over PrimBytes, and three
\* sequences whose bytes all differ
PrimSlices(n) ==
    [1..n -> PrimBytes]
    \cup {[i \in 1..n |-> (i * 37 + k) % 256] : k \in {0, 100, 219}}

Widths == {16, 32, 64}

InitFromBytes ==
    /\ OthersIdle
    /\ \E width \in Widths, en \in Endiannesses, n \in 0..MaxPrimLen :
          \E bytes \in PrimSlices(n) :
             call = [fn |-> "from_bytes", width |-> width, bytes |-> bytes, en |-> en]
    /\ ret = NoResult

FromBytes ==
    /\ call.fn = "from_bytes"
    /\ ret = NoResult
    /\ ret' = CASE call.width = 16 -> u16_from_bytes(call.bytes, call.en)
                [] call.width = 32 -> u32_from_bytes(call.bytes, call.en)
                [] call.width = 64 -> u64_from_bytes(call.bytes, call.en)
    /\ UNCHANGED <<call, hbytes, hres, pin, pres, file, build, pc, pos, ops, header,
                   pheaders, unnamed, result>>

NextFromBytes == FromBytes

SpecFromBytes == InitFromBytes /\ [][NextFromBytes]_vars

FromBytesCalled == call.fn = "from_bytes" /\ ret # NoResult

\* width / 8
PrimLen == call.width \div 8

\* the byte of the slice that the claim gives the weight 256^k
ByteOfWeight(k) ==
    IF call.en = "Little" THEN call.bytes[k + 1] ELSE call.bytes[PrimLen - k]

\* C16: for a slice of at least width/8 bytes from_bytes returns the integer
\* in which the byte at index i of the first width/8 bytes has the weight
\* 256^i (Little) or 256^(width/8 - 1 - i) (Big); the bytes after them do
\* not influence the result.
C16_Weights ==
    (FromBytesCalled /\ Len(call.bytes) >= PrimLen)
    => /\ IsOk(ret)
       /\ call.width = 16 => ret.val = ByteOfWeight(1) * 256 + ByteOfWeight(0)
       /\ call.width # 16
             => /\ Len(ret.val) = PrimLen
                /\ \A k \in 0..(PrimLen - 1) : ret.val[PrimLen - k] = ByteOfWeight(k)

\* a little-endian u64 decoded from a 9-byte slice whose bytes all differ
C16_Witness ==
    /\ FromBytesCalled
    /\ call.width = 64
    /\ call.en = "Little"
    /\ call.bytes = [i \in 1..9 |-> (i * 37 + 219) % 256]
    /\ ret = Ok(<<3, 222, 185, 148, 111, 74, 37, 0>>)

\* C17: from_bytes called with a slice shorter than width/8 bytes returns the
\* error InsufficientLength(length of the slice) to its caller.
C17_ShortSlice ==
    (FromBytesCalled /\ Len(call.bytes) < PrimLen)
    => /\ IsErr(ret, "InsufficientLength")
       /\ ret.arg = Len(call.bytes)

\* the decoded integer as base-256 digits, most significant first
DecodedDigits == IF call.width = 16 THEN NatDigits(ret.val, 2) ELSE ret.val

\* the bytes of the integer with the given digits in the given byte order
to_bytes(digits, en) ==
    [i \in 1..Len(digits) |->
        IF en = "Little" THEN digits[Len(digits) + 1 - i] ELSE digits[i]]

----------------------------------------------------------------------------
(* FileType::parse_bytes, WordWidth::parse_byte and Endianness::parse_byte *)
(* applied to every input                                                  *)

\* the values of a u8
Bytes == 0..255

InitEnums ==
    /\ OthersIdle
    /\ \/ \E b0 \in Bytes, b1 \in Bytes, en \in Endiannesses :
             call = [fn |-> "FileType::parse_bytes", bytes |-> <<b0, b1>>, en |-> en]
       \/ \E b \in Bytes : call = [fn |-> "WordWidth::parse_byte", b |-> b]
       \/ \E b \in Bytes : call = [fn |-> "Endianness::parse_byte", b |-> b]
    /\ ret = NoResult

ParseFileType ==
    /\ call.fn = "FileType::parse_bytes"
    /\ ret = NoResult
    /\ ret' = FileType_parse_bytes(call.bytes, call.en)
    /\ UNCHANGED <<call, hbytes, hres, pin, pres, file, build, pc, pos, ops, header,
                   pheaders, unnamed, result>>

ParseWordWidth ==
    /\ call.fn = "WordWidth::parse_byte"
    /\ ret = NoResult
    /\ ret' = WordWidth_parse_byte(call.b)
    /\ UNCHANGED <<call, hbytes, hres, pin, pres, file, build, pc, pos, ops, header,
                   pheaders, unnamed, result>>

ParseEndianness ==
    /\ call.fn = "Endianness::parse_byte"
    /\ ret = NoResult
    /\ ret' = Endianness_parse_byte(call.b)
    /\ UNCHANGED <<call, hbytes, hres, pin, pres, file, build, pc, pos, ops, header,
                   pheaders, unnamed, result>>

NextEnums == ParseFileType \/ ParseWordWidth \/ ParseEndianness

SpecEnums == InitEnums /\ [][NextEnums]_vars

\* the 16-bit code the two bytes of the call hold in its byte order
FileTypeCode ==
    IF call.en = "Little" THEN call.bytes[1] + 256 * call.bytes[2]
    ELSE 256 * call.bytes[1] + call.bytes[2]

\* C19: FileType::parse_bytes of two bytes is determined by the 16-bit code
\* they hold in the given byte order: 0, 1, 2, 3, 4 give None, Relocatable,
\* Executable, Shared, Core; a code >= 0xFF00 gives Specific(code); every
\* other code gives InvalidFileType(code).
C19_FileType ==
    (call.fn = "FileType::parse_bytes" /\ ret # NoResult)
    => LET code == FileTypeCode
       IN  /\ code = 0 => ret = Ok(<<"None">>)
           /\ code = 1 => ret = Ok(<<"Relocatable">>)
           /\ code = 2 => ret = Ok(<<"Executable">>)
           /\ code = 3 => ret = Ok(<<"Shared">>)
           /\ code = 4 => ret = Ok(<<"Core">>)
           /\ code >= 65280 => ret = Ok(<<"Specific", code>>)
           /\ (code >= 5 /\ code <= 65279)
                 => IsErr(ret, "InvalidFileType") /\ ret.arg = code

\* the smallest Specific code, read big-endian
C19_Witness ==
    /\ call.fn = "FileType::parse_bytes"
    /\ call.en = "Big"
    /\ call.bytes = <<255, 0>>
    /\ ret = Ok(<<"Specific", 65280>>)

\* C20: WordWidth::parse_byte gives Width32 for 1, Width64 for 2 and
\* InvalidWordWidth(b) for every other byte b; Endianness::parse_byte gives
\* Little for 1, Big for 2 and InvalidEndianness(b) for every other byte b,
\* 0 included.
C20_StrictBytes ==
    /\ (call.fn = "WordWidth::parse_byte" /\ ret # NoResult)
          => /\ call.b = 1 => ret = Ok("Width32")
             /\ call.b = 2 => ret = Ok("Width64")
             /\ call.b \notin {1, 2}
                   => IsErr(ret, "InvalidWordWidth") /\ ret.arg = call.b
    /\ (call.fn = "Endianness::parse_byte" /\ ret # NoResult)
          => /\ call.b = 1 => ret = Ok("Little")
             /\ call.b = 2 => ret = Ok("Big")
             /\ call.b \notin {1, 2}
                   => IsErr(ret, "InvalidEndianness") /\ ret.arg = call.b

\* the byte 0 rejected as a byte order
C20_Witness ==
    /\ call.fn = "Endianness::parse_byte"
    /\ call.b = 0
    /\ IsErr(ret, "InvalidEndianness")

----------------------------------------------------------------------------
(* Abi::from_byte and Arch::parse_bytes applied to every input, and        *)
(* Header::parse_bytes applied to headers with every ABI byte              *)

\* the value of a call that returns no Result
Value(v) == [tag |-> "Value", val |-> v]

\* architecture codes of the known list and outside it
HeaderArchCodes == {0, 62, 257, 11, 258, 65535}

\* a well-formed header with the given ABI byte and architecture code
DescribedHeader(ww, en, abi, arch) ==
    Put(Put(HeaderImage(ww, en, 0, 0, IF ww = "Width32" THEN 52 ELSE 64, 0, 0, 0, 0, 0),
            7, <<abi>>),
        18, Enc(arch, 2, en))

InitDescriptive ==
    /\ OthersIdle
    /\ \/ \E b \in Bytes : call = [fn |-> "Abi::from_byte", b |-> b]
       \/ \E b0 \in Bytes, b1 \in Bytes, en \in Endiannesses :
             call = [fn |-> "Arch::parse_bytes", bytes |-> <<b0, b1>>, en |-> en]
       \/ \E ww \in WordWidths, en \in Endiannesses, abi \in Bytes,
             arch \in HeaderArchCodes :
             call = [fn |-> "Header::parse_bytes",
                     bytes |-> DescribedHeader(ww, en, abi, arch),
                     abi |-> abi, arch |-> arch]
    /\ ret = NoResult

AbiFromByte ==
    /\ call.fn = "Abi::from_byte"
    /\ ret = NoResult
    /\ ret' = Value(Abi_from_byte(call.b))
    /\ UNCHANGED <<call, hbytes, hres, pin, pres, file, build, pc, pos, ops, header,
                   pheaders, unnamed, result>>

ArchParseBytes ==
    /\ call.fn = "Arch::parse_bytes"
    /\ ret = NoResult
    /\ ret' = Arch_parse_bytes(call.bytes, call.en)
    /\ UNCHANGED <<call, hbytes, hres, pin, pres, file, build, pc, pos, ops, header,
                   pheaders, unnamed, result>>

HeaderParseBytes ==
    /\ call.fn = "Header::parse_bytes"
    /\ ret = NoResult
    /\ ret' = Header_parse_bytes(call.bytes)
    /\ UNCHANGED <<call, hbytes, hres, pin, pres, file, build, pc, pos, ops, header,
                   pheaders, unnamed, result>>

NextDescriptive == AbiFromByte \/ ArchParseBytes \/ HeaderParseBytes

SpecDescriptive == InitDescriptive /\ [][NextDescriptive]_vars

\* the named ABIs by code 0x00 .. 0x12; code 0x05 has none
AbiNames ==
    <<"SysV", "HpUx", "NetBSD", "Linux", "GnuHurd", "Unknown", "Solaris", "Aix",
      "Irix", "FreeBSD", "Tru64", "NovellModesto", "OpenBSD", "OpenVMS",
      "NonStopKernel", "Aros", "FenixOS", "CloudABI", "OpenVOS">>

\* the architecture codes of the known list
KnownArchCodes ==
    {0, 1, 2, 3, 4, 5, 6, 7, 8, 9, 10, 14, 19, 20, 21, 22, 40, 42, 50, 62, 140, 183,
     243, 247, 257}

\* the 16-bit code the two bytes of the call hold in its byte order
ArchCode ==
    IF call.en = "Little" THEN call.bytes[1] + 256 * call.bytes[2]
    ELSE 256 * call.bytes[1] + call.bytes[2]

\* C21: Abi::from_byte yields a variant for every byte: Unknown for 0x05,
\* 0x13 and every higher byte, and for each other byte of 0x00 .. 0x12 its
\* own named ABI; Arch::parse_bytes of two bytes yields a variant for every
\* 16-bit code, Unknown outside the known list; a header with an
\* unrecognised ABI or architecture is decoded all the same.
C21_Descriptive ==
    /\ Cardinality({AbiNames[i] : i \in 1..19}) = 19
    /\ (call.fn = "Abi::from_byte" /\ ret # NoResult)
          => /\ ret.tag = "Value"
             /\ (call.b = 5 \/ call.b >= 19) => ret.val = "Unknown"
             /\ (call.b <= 18 /\ call.b # 5)
                   => ret.val = AbiNames[call.b + 1] /\ ret.val # "Unknown"
    /\ (call.fn = "Arch::parse_bytes" /\ ret # NoResult)
          => /\ IsOk(ret)
             /\ ArchCode \notin KnownArchCodes <=> ret.val = "Unknown"
    /\ (call.fn = "Header::parse_bytes" /\ ret # NoResult)
          => /\ IsOk(ret)
             /\ ret.val.os_abi = "Unknown" <=> (call.abi = 5 \/ call.abi >= 19)
             /\ ret.val.arch = "Unknown" <=> call.arch \notin KnownArchCodes

\* a header accepted with the ABI byte 0xFF and the architecture code 0xFFFF
C21_Witness ==
    /\ call.fn = "Header::parse_bytes"
    /\ call.abi = 255
    /\ call.arch = 65535
    /\ IsOk(ret)
    /\ ret.val.os_abi = "Unknown"
    /\ ret.val.arch = "Unknown"

----------------------------------------------------------------------------
(* The multi-byte field decoders applied to byte slices *)

\* the longest slice handed to SectionHeaderFlags::parse_bytes and
\* Word::parse_bytes
MaxFieldLen == 9

\* 32-bit codes: 0 .. 21 under each of the leading bytes at and next to the
\* limits of the ranges, and the largest code under each leading byte
U32Codes ==
    LET leading == {0, 95, 96, 111, 112, 127, 128, 255}
    IN  {<<a, 0, 0, b>> : a \in leading, b \in 0..21}
        \cup {<<a, 255, 255, 255>> : a \in leading}

\* the union of the declared section flags: bits 0-2, 4-10 and 20-31
AllFlags == <<0, 0, 0, 0, 255, 240, 7, 247>>

\* 64-bit masks: no bit, every single bit, all declared bits, and all
\* declared bits with bit 3, bit 11 or bit 32
Masks ==
    {Zeros(8), AllFlags, <<0, 0, 0, 0, 255, 240, 7, 255>>,
     <<0, 0, 0, 0, 255, 240, 15, 247>>, <<0, 0, 0, 1, 255, 240, 7, 247>>}
    \cup {[i \in 1..8 |-> IF i = 8 - (q \div 8) THEN 2 ^ (q % 8) ELSE 0] : q \in 0..63}

\* the field followed by filler, cut to len bytes
FieldSlice(field, len) ==
    [i \in 1..len |-> IF i <= Len(field) THEN field[i] ELSE Filler(i)]

InitFields ==
    /\ OthersIdle
    /\ \/ \E fn \in {"FileType::parse_bytes", "Arch::parse_bytes"},
             en \in Endiannesses, code \in {2, 62, 65535}, len \in 0..3 :
             call = [fn |-> fn, bytes |-> FieldSlice(Enc(code, 2, en), len), en |-> en]
       \/ \E fn \in {"ProgramHeaderSegmentType::parse_bytes",
                     "SectionHeaderType::parse_bytes"},
             en \in Endiannesses, code \in U32Codes, len \in 0..5 :
             call = [fn |-> fn, bytes |-> FieldSlice(EncDigits(code, en), len),
                     en |-> en]
       \/ \E fn \in {"SectionHeaderFlags::parse_bytes", "Word::parse_bytes"},
             ww \in WordWidths, en \in Endiannesses, mask \in Masks,
             len \in 0..MaxFieldLen :
             call = [fn |-> fn,
                     bytes |-> FieldSlice(
                                   EncDigits(IF ww = "Width32" THEN SubSeq(mask, 5, 8)
                                             ELSE mask, en), len),
                     ww |-> ww, en |-> en]
    /\ ret = NoResult

ParseSegmentType ==
    /\ call.fn = "ProgramHeaderSegmentType::parse_bytes"
    /\ ret = NoResult
    /\ ret' = ProgramHeaderSegmentType_parse_bytes(call.bytes, call.en)
    /\ UNCHANGED <<call, hbytes, hres, pin, pres, file, build, pc, pos, ops, header,
                   pheaders, unnamed, result>>

ParseSectionType ==
    /\ call.fn = "SectionHeaderType::parse_bytes"
    /\ ret = NoResult
    /\ ret' = SectionHeaderType_parse_bytes(call.bytes, call.en)
    /\ UNCHANGED <<call, hbytes, hres, pin, pres, file, build, pc, pos, ops, header,
                   pheaders, unnamed, result>>

ParseSectionFlags ==
    /\ call.fn = "SectionHeaderFlags::parse_bytes"
    /\ ret = NoResult
    /\ ret' = SectionHeaderFlags_parse_bytes(call.bytes, call.ww, call.en)
    /\ UNCHANGED <<call, hbytes, hres, pin, pres, file, build, pc, pos, ops, header,
                   pheaders, unnamed, result>>

ParseWord ==
    /\ call.fn = "Word::parse_bytes"
    /\ ret = NoResult
    /\ ret' = Word_parse_bytes(call.bytes, call.ww, call.en)
    /\ UNCHANGED <<call, hbytes, hres, pin, pres, file, build, pc, pos, ops, header,
                   pheaders, unnamed, result>>

NextFields ==
    \/ ParseFileType
    \/ ArchParseBytes
    \/ ParseSegmentType
    \/ ParseSectionType
    \/ ParseSectionFlags
    \/ ParseWord

SpecFields == InitFields /\ [][NextFields]_vars

FieldDecoders ==
    {"FileType::parse_bytes", "Arch::parse_bytes",
     "ProgramHeaderSegmentType::parse_bytes", "SectionHeaderType::parse_bytes",
     "SectionHeaderFlags::parse_bytes", "Word::parse_bytes"}

FieldCalled == call.fn \in FieldDecoders /\ ret # NoResult

\* the width in bytes of the field the called decoder reads
FieldWidth ==
    CASE call.fn \in {"FileType::parse_bytes", "Arch::parse_bytes"} -> 2
      [] call.fn \in {"ProgramHeaderSegmentType::parse_bytes",
                      "SectionHeaderType::parse_bytes"} -> 4
      [] OTHER -> IF call.ww = "Width32" THEN 4 ELSE 8

\* C22: FileType, Arch, SegmentType, SectionType, SectionFlags and Word
\* decoders called with a slice shorter than the field (2, 2, 4, 4, and 4 or
\* 8 bytes by word width) return the insufficient-length error
\* (InsufficientPartLength) with the length of the slice, in both byte
\* orders; with a slice long enough they return a value or another error and
\* never read past the slice.
C22_FieldLength ==
    FieldCalled
    => /\ Len(call.bytes) < FieldWidth
             => IsErr(ret, "InsufficientPartLength") /\ ret.arg = Len(call.bytes)
       /\ Len(call.bytes) >= FieldWidth
             => /\ ret.tag \in {"Ok", "Err"}
                /\ ~IsErr(ret, "InsufficientPartLength")

\* a 64-bit word asked of 7 bytes
C22_Witness ==
    /\ call.fn = "Word::parse_bytes"
    /\ call.ww = "Width64"
    /\ Len(call.bytes) = 7
    /\ ret = Err("InsufficientPartLength", 7)

\* the 32-bit code the first four bytes of the call hold in its byte order
Code32 == SubSeq(CallField(0, 4), 5, 8)

\* lo <= Code32 <= hi
Code32In(lo, hi) == DLeq(lo, Code32) /\ DLeq(Code32, hi)

SegmentTypeNames ==
    <<"Null", "Load", "Dynamic", "Interp", "Note", "SharedLib", "HeaderSegment",
      "ThreadLocalStorage">>

\* C23: the codes 0 .. 7 give the eight named segment types; a code in
\* [0x60000000, 0x6FFFFFFF] gives OSSpecific(code); a code in
\* [0x70000000, 0x7FFFFFFF] gives ProcessorSpecific(code); every other code
\* (8 .. 0x5FFFFFFF, 0x80000000 and above) gives the invalid segment type
\* error with the code.
C23_SegmentType ==
    (call.fn = "ProgramHeaderSegmentType::parse_bytes" /\ ret # NoResult
     /\ Len(call.bytes) >= 4)
    => LET named == Code32In(<<0, 0, 0, 0>>, <<0, 0, 0, 7>>)
           os == Code32In(<<96, 0, 0, 0>>, <<111, 255, 255, 255>>)
           proc == Code32In(<<112, 0, 0, 0>>, <<127, 255, 255, 255>>)
       IN  /\ named => ret = Ok(<<SegmentTypeNames[Code32[4] + 1]>>)
           /\ os => ret = Ok(<<"OSSpecific", Code32>>)
           /\ proc => ret = Ok(<<"ProcessorSpecific", Code32>>)
           /\ ~(named /\ os) /\ ~(named /\ proc) /\ ~(os /\ proc)
           /\ ~(named \/ os \/ proc)
                 => IsErr(ret, "InvalidProgHeaderType") /\ ret.arg = Code32

\* the last OSSpecific code, read little-endian
C23_Witness ==
    /\ call.fn = "ProgramHeaderSegmentType::parse_bytes"
    /\ call.en = "Little"
    /\ Len(call.bytes) >= 4
    /\ SubSeq(call.bytes, 1, 4) = <<255, 255, 255, 111>>
    /\ ret = Ok(<<"OSSpecific", <<111, 255, 255, 255>>>>)

\* the named section types by code 0x0 .. 0x13; 0xC and 0xD have none
SectionTypeNames ==
    <<"Null", "ProgramBits", "SymbolTable", "StringTable", "RelocationWithAddends",
      "Hash", "Dynamic", "Note", "NoData", "Relocation", "SharedLib",
      "DynamicSymbolTable", "", "", "ConstructorArray", "DestructorArray",
      "PreConstructorArray", "Group", "SectionIndices", "Num">>

\* C24: each known section type code gives its named type; every code
\* >= 0x60000000 gives OsSpecific(code), never a named type; every other
\* code (0xC, 0xD, 0x14, ...) gives the invalid section type error with
\* the code.
C24_SectionType ==
    (call.fn = "SectionHeaderType::parse_bytes" /\ ret # NoResult
     /\ Len(call.bytes) >= 4)
    => LET known == /\ Code32In(<<0, 0, 0, 0>>, <<0, 0, 0, 19>>)
                    /\ Code32[4] \notin {12, 13}
           os == DLeq(<<96, 0, 0, 0>>, Code32)
       IN  /\ known => ret = Ok(<<SectionTypeNames[Code32[4] + 1]>>)
           /\ os => ret = Ok(<<"OsSpecific", Code32>>)
           /\ ~(known \/ os)
                 => IsErr(ret, "InvalidSectionHeaderType") /\ ret.arg = Code32

\* the first OsSpecific code, read big-endian
C24_Witness ==
    /\ call.fn = "SectionHeaderType::parse_bytes"
    /\ call.en = "Big"
    /\ Len(call.bytes) >= 4
    /\ SubSeq(call.bytes, 1, 4) = <<96, 0, 0, 0>>
    /\ ret = Ok(<<"OsSpecific", <<96, 0, 0, 0>>>>)

\* the bits of the declared section flags
KnownFlagBits == {0, 1, 2} \cup (4..10) \cup (20..31)

\* the mask the slice of the call holds: 32 bits zero-extended, or 64 bits
FlagsMask == CallWord(0, 0)

\* C25: SectionHeaderFlags::parse_bytes reads a 32-bit mask, zero-extended,
\* or a 64-bit mask, accepts it exactly when no bit outside the declared
\* flags is set, returns an accepted mask bit for bit, and fails with the
\* invalid section flags error carrying the mask otherwise.
C25_SectionFlags ==
    (call.fn = "SectionHeaderFlags::parse_bytes" /\ ret # NoResult
     /\ Len(call.bytes) >= FieldWidth)
    => IF \A q \in 0..63 : BitAt(FlagsMask, q) = 1 => q \in KnownFlagBits
       THEN ret = Ok(FlagsMask)
       ELSE IsErr(ret, "InvalidSectionHeaderFlags") /\ ret.arg = FlagsMask

\* a 64-bit mask rejected for bit 32 alone
C25_Witness ==
    /\ call.fn = "SectionHeaderFlags::parse_bytes"
    /\ call.ww = "Width64"
    /\ ret = Err("InvalidSectionHeaderFlags", <<0, 0, 0, 1, 0, 0, 0, 0>>)

----------------------------------------------------------------------------
(* Claims about the table sizes and the order of errors of parse_file, *)
(* checked under Spec                                                   *)

\* C26: for every entry count and entry size of the header the read of the
\* program header table, and of the section header table, asks for
\* count * entry_size bytes, the product of the two numbers, not its low 16
\* bits; the computation of the size does not end the call.
C26_TableSize ==
    /\ Len(ops) >= 3
          => ops[3].len = header.val.pheader_entries * header.val.pheader_entry_size
    /\ Len(ops) >= 5
          => ops[5].len = header.val.sheader_entries * header.val.sheader_entry_size
    /\ (IsOk(header) /\ Len(ops) \in {1, 3}) => result.tag # "Panic"

\* the header decoded from the header region of the file
FileHeader == Header_parse_bytes(file_read(file, 0, 64))

\* neither table size of the header h exceeds 16 bits
NoOverflow(h) ==
    /\ h.pheader_entries * h.pheader_entry_size < 65536
    /\ h.sheader_entries * h.sheader_entry_size < 65536

\* program header i of the file: decoded from the bytes of the table from
\* offset i * entry_size to the end of the table
PhEntry(i) ==
    LET h == FileHeader.val
        at == as_usize(Word_to_u64(h.program_header_start))
    IN  ProgramHeader_parse_bytes(
            file_bytes(file, at + i * h.pheader_entry_size,
                       (h.pheader_entries - i) * h.pheader_entry_size),
            h.word_width, h.endianness)

\* section header i of the file, likewise
ShEntry(i) ==
    LET h == FileHeader.val
        at == as_usize(Word_to_u64(h.section_header_start))
    IN  UnnamedSectionHeader_parse_bytes(
            file_bytes(file, at + i * h.sheader_entry_size,
                       (h.sheader_entries - i) * h.sheader_entry_size),
            h.word_width, h.endianness)

FailingPh == {i \in 0..(FileHeader.val.pheader_entries - 1) : ~IsOk(PhEntry(i))}

FailingSh == {i \in 0..(FileHeader.val.sheader_entries - 1) : ~IsOk(ShEntry(i))}

\* the section the name-table index of the file selects, if any
FileNamesIndexValid ==
    FileHeader.val.section_names_index < FileHeader.val.sheader_entries

FileNamesSection == ShEntry(FileHeader.val.section_names_index).val

\* the resolution of the name of section i against the string table
NameEntry(i) ==
    UnnamedSectionHeader_to_named(
        ShEntry(i).val,
        file_bytes(file, as_usize(Word_to_u64(FileNamesSection.offset)),
                   as_usize(Word_to_u64(FileNamesSection.size))))

FailingNames ==
    {i \in 0..(FileHeader.val.sheader_entries - 1) : ~IsOk(NameEntry(i))}

Least(S) == CHOOSE x \in S : \A y \in S : x <= y

\* what parse_file gives for the step outcome r that is no value
Failure(r) == IF r.tag = "Panic" THEN Panic ELSE InvalidELF(r)

ShortProgramHeaders(h) ==
    /\ h.pheader_entries >= 1
    /\ h.pheader_entry_size < (IF h.word_width = "Width32" THEN 32 ELSE 56)
    /\ h.pheader_entries * h.pheader_entry_size < 65536

ShortSectionHeaders(h) ==
    /\ h.sheader_entries >= 1
    /\ h.sheader_entry_size < (IF h.word_width = "Width32" THEN 40 ELSE 64)
    /\ h.sheader_entries * h.sheader_entry_size < 65536

\* C30: parse_file never returns a Metadata for a header that declares at
\* least one program header of an entry size below 32 (32-bit) or 56 (64-bit)
\* bytes, or at least one section header of an entry size below 40 or 64
\* bytes, with count * entry_size below 65536; the entries before the last
\* one are decoded from slices that extend to the end of the table, so the
\* error returned for such a table is that of the first entry that fails on
\* such a slice.
C30_ShortEntries ==
    /\ Returned
          => /\ ~ShortProgramHeaders(result.val.header)
             /\ ~ShortSectionHeaders(result.val.header)
    /\ (Done /\ Len(ops) >= 3 /\ ops[3].ok /\ ShortProgramHeaders(FileHeader.val))
          => /\ Len(ops) = 3
             /\ ~IsOk(PhEntry(FileHeader.val.pheader_entries - 1))
             /\ result = InvalidELF(PhEntry(Least(FailingPh)))
    /\ (Done /\ Len(ops) >= 5 /\ ops[5].ok /\ ShortSectionHeaders(FileHeader.val))
          => /\ Len(ops) = 5
             /\ ~IsOk(ShEntry(FileHeader.val.sheader_entries - 1))
             /\ result = InvalidELF(ShEntry(Least(FailingSh)))

\* two program headers of 28 bytes in a 32-bit file: entry 0 was decoded from
\* the 56 bytes of the table and rejected for the alignment it read from the
\* bytes of entry 1
C30_Witness ==
    /\ Done
    /\ Len(ops) = 3
    /\ IsOk(FileHeader)
    /\ FileHeader.val.word_width = "Width32"
    /\ FileHeader.val.pheader_entries = 2
    /\ FileHeader.val.pheader_entry_size = 28
    /\ IsErr(result, "InvalidELF")
    /\ IsErr(result.arg, "InvalidAlignment")

----------------------------------------------------------------------------
(* The order of the checks of Header::parse_bytes, checked under SpecHeader *)

\* C28: Header::parse_bytes reports the first failing check of: length >= 52;
\* magic; word width byte; length >= 52 / 64 for that width; byte order byte;
\* file type; own_size.  A slice that passes all of them is accepted.
C28_CheckOrder ==
    HeaderCalled
    => IF Len(hbytes) < 52
       THEN hres = Err("InsuffcientHeaderLength", Len(hbytes))
       ELSE IF SubSeq(hbytes, 1, 4) # <<127, 69, 76, 70>>
       THEN IsErr(hres, "NoELF")
       ELSE IF hbytes[5] \notin {1, 2}
       THEN hres = Err("InvalidWordWidth", hbytes[5])
       ELSE IF Len(hbytes) < RequiredSize
       THEN hres = Err("InsuffcientHeaderLength", Len(hbytes))
       ELSE IF hbytes[6] \notin {1, 2}
       THEN hres = Err("InvalidEndianness", hbytes[6])
       ELSE IF ~FileTypeCodeValid(FieldU16(hbytes, 16))
       THEN hres = Err("InvalidFileType", FieldU16(hbytes, 16))
       ELSE IF OwnSizeField # RequiredSize
       THEN hres.tag = "Err" /\ hres.arg = OwnSizeField
       ELSE IsOk(hres)

\* a 64-bit slice of 60 bytes with an invalid byte order byte: the length
\* error is returned
C28_Witness ==
    /\ HeaderCalled
    /\ Len(hbytes) = 60
    /\ SubSeq(hbytes, 1, 4) = <<127, 69, 76, 70>>
    /\ hbytes[5] = 2
    /\ hbytes[6] = 0
    /\ hres = Err("InsuffcientHeaderLength", 60)

----------------------------------------------------------------------------
(* The three entry decoders applied to slices of every length *)

\* a valid and an invalid magic
SliceMagics == {GoodMagic, <<127, 69, 76, 71>>}

\* a power of two and another alignment
SliceAligns == {<<0, 0, 0, 0, 0, 0, 0, 4>>, <<0, 0, 0, 0, 0, 0, 0, 3>>}

InitSlices ==
    /\ OthersIdle
    /\ \/ \E magic \in SliceMagics, wwb \in WidthBytes, enb \in OrderBytes,
             ft \in {2, 5}, own \in {52, 64}, len \in 0..MaxSliceLen :
             call = [fn |-> "Header::parse_bytes",
                     bytes |-> HeaderSlice(magic, wwb, enb, ft, own, len)]
       \/ \E ww \in WordWidths, en \in Endiannesses, typ \in SegmentTypeCodes,
             align \in SliceAligns, len \in 0..MaxEntryLen :
             call = [fn |-> "ProgramHeader::parse_bytes",
                     bytes |-> EntrySlice(PhImage(ww, en, typ, 7, Zeros(8), Zeros(8),
                                                  0, align), len),
                     ww |-> ww, en |-> en]
       \/ \E ww \in WordWidths, en \in Endiannesses, typ \in SectionTypeCodes,
             flags \in SectionFlagCodes, align \in SliceAligns,
             len \in 0..MaxSectionLen :
             call = [fn |-> "UnnamedSectionHeader::parse_bytes",
                     bytes |-> SectionSlice(ww, en, typ, flags, 4097, align, len),
                     ww |-> ww, en |-> en]
    /\ ret = NoResult

ProgramHeaderParseBytes ==
    /\ call.fn = "ProgramHeader::parse_bytes"
    /\ ret = NoResult
    /\ ret' = ProgramHeader_parse_bytes(call.bytes, call.ww, call.en)
    /\ UNCHANGED <<call, hbytes, hres, pin, pres, file, build, pc, pos, ops, header,
                   pheaders, unnamed, result>>

NextSlices == HeaderParseBytes \/ ProgramHeaderParseBytes \/ ParseSectionHeader

SpecSlices == InitSlices /\ [][NextSlices]_vars

\* C29: Header::parse_bytes, ProgramHeader::parse_bytes and
\* UnnamedSectionHeader::parse_bytes return a value or an error for a slice
\* of every length: no primitive read meets a slice shorter than its field
\* and no slice expression is out of range.
C29_NoAbort ==
    ret # NoResult => ret.tag \in {"Ok", "Err"}

\* the section decoder returned the length error for a 64-bit slice one byte
\* short of the layout
C29_Witness ==
    /\ ret # NoResult
    /\ call.fn = "UnnamedSectionHeader::parse_bytes"
    /\ call.ww = "Width64"
    /\ Len(call.bytes) = 63
    /\ ret = Err("InsufficientSectionHeaderLength", 63)

====
